---------------------------- MODULE Spec2Model ----------------------------
(***************************************************************************)
(* The Kalman track fitter of Core/include/Acts/TrackFitting/              *)
(* KalmanFitter.hpp as a state machine: the fit entry point builds the     *)
(* measurement index and configures the actor, the propagator invokes the  *)
(* actor once per step with the surface reported by the navigator, the     *)
(* aborter ends the propagation, and the entry point turns the fit result  *)
(* into the returned value.                                                *)
(***************************************************************************)
EXTENDS Integers, Sequences, FiniteSets, TLC

VARIABLES
    sourceLinks,        \* the [it, end) range of source links handed to fit
    kfOptions,          \* the caller's KalmanFitterOptions
    inputMeasurements,  \* fit's local map GeometryIdentifier -> SourceLink
    kalmanActor,        \* the Actor installed in the propagator options
    state,              \* the propagator state (stepping, options, navigation)
    result,             \* the KalmanFitterResult in the propagator's result slot
    locals,             \* the res locals of the last Actor::operator() call
    pc,                 \* position in KalmanFitter::fit
    propRes,            \* what m_propagator.propagate returned
    ret,                \* what fit returned
    fitter,             \* the KalmanFitter object fit is called on
    suspended,          \* the fit of another thread that is not scheduled
    call                \* a call of a function outside the fitter: the
                        \* function, its arguments and what it returned

vars == <<sourceLinks, kfOptions, inputMeasurements, kalmanActor, state,
          result, locals, pc, propRes, ret, fitter, suspended, call>>

----------------------------------------------------------------------------
(* Bounds of the model *)

MaxLinks == 2       \* longest source-link range
MaxStates == 3      \* capacity of the multi-trajectory arena
StepSizeMag == 2    \* |options.maxStepSize| of the propagator options
PathLimitMag == 3   \* |options.pathLimit| of the propagator options

----------------------------------------------------------------------------
(* Geometry: surfaces are identified with their geometry ids.  1 and 2 are *)
(* sensitive without material, 3 is sensitive with material, 4 carries     *)
(* material only, 5 is passive.                                            *)

SIZE_MAX == -1
NoSurface == 0
TargetSurface == 9
Surfaces == 1..5
Forward == 1
Backward == -1

geometryId(surface) == surface
associatedDetectorElement(surface) == surface \in {1, 2, 3}
surfaceMaterial(surface) == surface \in {3, 4}

Abs(x) == IF x < 0 THEN -x ELSE x

\* Result<void>: "ok" or an error kind
Ok == "ok"
UpdaterErrors == {"UpdateFailed"}
StepperError == "StepperError"
SmootherError == "SmootherError"
PropagatorError == "PropagatorError"

----------------------------------------------------------------------------
(* Track states and the multi-trajectory arena (0-based indices).          *)

\* a slot that is absent (unset), and one that is present with nothing
\* written to it yet
NoValue == [kind |-> "unset", surface |-> NoSurface, link |-> 0, dir |-> 0]
Allocated ==
    [kind |-> "allocated", surface |-> NoSurface, link |-> 0, dir |-> 0]
NoLink == [id |-> 0, geo |-> 0]

Value(kind, surface, link, dir) ==
    [kind |-> kind, surface |-> surface, link |-> link, dir |-> dir]

\* a state is created with all its slots present (TrackStatePropMask::All)
TrackState(surface, previous, flags, link, filtered) ==
    [referenceSurface |-> surface, previous |-> previous, typeFlags |-> flags,
     uncalibrated |-> link, filtered |-> filtered, smoothed |-> Allocated]

getTrackState(fittedStates, index) == fittedStates[index + 1]

\* addTrackState: append, the new index is the old size
addTrackState(fittedStates, ts) == Append(fittedStates, ts)

\* applyBackwards: the indices visited from iendpoint back to the start of
\* the chain; nothing is visited from the SIZE_MAX sentinel
RECURSIVE applyBackwards(_, _)
applyBackwards(fittedStates, iendpoint) ==
    IF iendpoint = SIZE_MAX THEN <<>>
    ELSE <<iendpoint>> \o
         applyBackwards(fittedStates,
                        getTrackState(fittedStates, iendpoint).previous)

----------------------------------------------------------------------------
(* KalmanFitterResult, lines 181-230 *)

KalmanFitterResult ==
    [fittedStates |-> <<>>,
     lastMeasurementIndex |-> SIZE_MAX,
     lastTrackIndex |-> SIZE_MAX,
     fittedParameters |-> "nullopt",
     measurementStates |-> 0,
     measurementHoles |-> 0,
     processedStates |-> 0,
     smoothed |-> FALSE,
     reversed |-> FALSE,
     finished |-> FALSE,
     missedActiveSurfaces |-> <<>>,
     passedAgainSurfaces |-> <<>>,
     result |-> Ok]

NoLocals ==
    [invoked |-> FALSE, filterRes |-> "none", reversedFilterRes |-> "none",
     updateRes |-> "none", terminated |-> FALSE, reverseRes |-> "none",
     finalizeRes |-> "none", targetReached |-> FALSE, boundRes |-> "none",
     injected |-> FALSE]

----------------------------------------------------------------------------
(* detail::kalmanHandleMeasurement and detail::kalmanHandleNoMeasurement   *)
(* (KalmanUpdateHelpers.hpp): each appends a state linked to the previous  *)
(* tip and returns the proxy, or an error of the extension / the stepper.  *)
(* The outcome of the outlier finder, the updater and the stepper is the   *)
(* extension's choice.                                                     *)

HandlerOutcome(fittedStates, ts, res) ==
    [fittedStates |-> addTrackState(fittedStates, ts),
     index |-> Len(fittedStates), trackState |-> ts, res |-> res]

kalmanHandleMeasurement(fittedStates, surface, sourceLink, lastTrackIndex, navDir) ==
    LET accepted == TrackState(surface, lastTrackIndex, {"MeasurementFlag"},
                        sourceLink,
                        Value("filtered", surface, sourceLink.id, navDir))
        outlier == TrackState(surface, lastTrackIndex, {"OutlierFlag"},
                        sourceLink,
                        Value("predicted", surface, sourceLink.id, navDir))
    IN  {HandlerOutcome(fittedStates, accepted, Ok),
         HandlerOutcome(fittedStates, outlier, Ok)}
        \cup {HandlerOutcome(fittedStates, accepted, e) : e \in UpdaterErrors}

NoMeasurementFlags(surface) ==
    {"ParameterFlag"}
    \cup (IF surfaceMaterial(surface) THEN {"MaterialFlag"} ELSE {})
    \cup (IF associatedDetectorElement(surface) THEN {"HoleFlag"} ELSE {})

kalmanHandleNoMeasurement(fittedStates, surface, lastTrackIndex, navDir) ==
    LET ts == TrackState(surface, lastTrackIndex, NoMeasurementFlags(surface),
                         NoLink, Value("predicted", surface, 0, navDir))
    IN  {HandlerOutcome(fittedStates, ts, Ok),
         HandlerOutcome(fittedStates, ts, StepperError)}

----------------------------------------------------------------------------
(* Actor::filter, lines 543-634.  Each operator returns the set of         *)
(* [r, res] pairs the call can end in: the updated fit result and the      *)
(* returned Result<void>.                                                  *)

\* mutant: the last-measurement index is not recorded
filterMeasurement_noIndex(r, h) ==
    LET isMeasurement == "MeasurementFlag" \in h.trackState.typeFlags
    IN  [r EXCEPT !.fittedStates = h.fittedStates,
                  !.lastTrackIndex = h.index,
                  !.measurementStates = IF isMeasurement THEN @ + 1 ELSE @,
                  !.processedStates = @ + 1,
                  !.measurementHoles = Len(r.missedActiveSurfaces)]

\* mutant: an outlier is counted as a measurement state
filterMeasurement_countsOutlier(r, h) ==
    [r EXCEPT !.fittedStates = h.fittedStates,
              !.lastTrackIndex = h.index,
              !.measurementStates = @ + 1,
              !.processedStates = @ + 1,
              !.measurementHoles = Len(r.missedActiveSurfaces),
              !.lastMeasurementIndex = h.index]

\* mutant: the track tip is not advanced on a measurement surface
filterMeasurement_staleTip(r, h) ==
    LET isMeasurement == "MeasurementFlag" \in h.trackState.typeFlags
    IN  [r EXCEPT !.fittedStates = h.fittedStates,
                  !.measurementStates = IF isMeasurement THEN @ + 1 ELSE @,
                  !.processedStates = @ + 1,
                  !.measurementHoles = Len(r.missedActiveSurfaces),
                  !.lastMeasurementIndex = h.index]

\* lines 571-600: the measurement branch after the handler succeeded
filterMeasurement(r, h) ==
    LET isMeasurement == "MeasurementFlag" \in h.trackState.typeFlags
    IN  [r EXCEPT !.fittedStates = h.fittedStates,
                  !.lastTrackIndex = h.index,
                  !.measurementStates = IF isMeasurement THEN @ + 1 ELSE @,
                  !.processedStates = @ + 1,
                  !.measurementHoles = Len(r.missedActiveSurfaces),
                  !.lastMeasurementIndex = h.index]

\* lines 607-608: whether a state is created on a surface without measurement
createsNoMeasurementState(r, surface) ==
    r.measurementStates > 0 \/ surfaceMaterial(surface)

\* mutant: a hole is not remembered as a missed surface
filterNoMeasurement_noMissed(r, surface, h) ==
    [r EXCEPT !.fittedStates = h.fittedStates,
              !.lastTrackIndex = h.index,
              !.processedStates = @ + 1]

\* lines 617-625: the no-measurement branch after the handler succeeded
filterNoMeasurement(r, surface, h) ==
    [r EXCEPT !.fittedStates = h.fittedStates,
              !.lastTrackIndex = h.index,
              !.missedActiveSurfaces =
                  IF "HoleFlag" \in h.trackState.typeFlags
                  THEN Append(@, surface) ELSE @,
              !.processedStates = @ + 1]

\* lines 785-829: the material interaction is evaluated on a surface that
\* carries material; the sequence of the update stages applied
materialInteractor(surface, updateStage) ==
    IF surface # NoSurface /\ surfaceMaterial(surface)
    THEN <<updateStage>> ELSE <<>>

\* mutant: the post-update material is applied whatever the handler returned
measurementMaterial_always(surface, res) ==
    materialInteractor(surface, "PreUpdate")
    \o materialInteractor(surface, "PostUpdate")

\* lines 557-592: pre-update material before the handler, post-update
\* material after its success
measurementMaterial(surface, res) ==
    materialInteractor(surface, "PreUpdate")
    \o (IF res = Ok THEN materialInteractor(surface, "PostUpdate") ELSE <<>>)

\* lines 613-631: full material after the handler's success
noMeasurementMaterial(surface, res) ==
    IF res = Ok THEN materialInteractor(surface, "FullUpdate") ELSE <<>>

filter(surface, s, r) ==
    IF geometryId(surface) \in DOMAIN inputMeasurements
    THEN {IF h.res # Ok
          THEN [r |-> [r EXCEPT !.fittedStates = h.fittedStates], res |-> h.res,
                material |-> measurementMaterial(surface, h.res)]
          ELSE [r |-> filterMeasurement(r, h), res |-> Ok,
                material |-> measurementMaterial(surface, Ok)] :
            h \in kalmanHandleMeasurement(r.fittedStates, surface,
                      inputMeasurements[geometryId(surface)],
                      r.lastTrackIndex, s.navDir)}
    ELSE IF associatedDetectorElement(surface) \/ surfaceMaterial(surface)
    THEN IF createsNoMeasurementState(r, surface)
         THEN {IF h.res # Ok
               THEN [r |-> [r EXCEPT !.fittedStates = h.fittedStates],
                     res |-> h.res,
                     material |-> noMeasurementMaterial(surface, h.res)]
               ELSE [r |-> filterNoMeasurement(r, surface, h), res |-> Ok,
                     material |-> noMeasurementMaterial(surface, Ok)] :
                 h \in kalmanHandleNoMeasurement(r.fittedStates, surface,
                           r.lastTrackIndex, s.navDir)}
         ELSE {[r |-> r, res |-> Ok,
                material |-> noMeasurementMaterial(surface, Ok)]}
    ELSE {[r |-> r, res |-> Ok, material |-> <<>>]}

----------------------------------------------------------------------------
(* Actor::reverse, lines 478-532: [r, s, res] *)

\* mutant: the reversal is remembered before the measurement check
reverse_marksFirst(s, r) ==
    IF r.lastMeasurementIndex = SIZE_MAX
    THEN [r |-> [r EXCEPT !.reversed = TRUE], s |-> s,
          res |-> "ReverseNavigationFailed"]
    ELSE LET navDir == IF s.navDir = Forward THEN Backward ELSE Forward
             maxStepSize == navDir * Abs(s.maxStepSize)
             st == getTrackState(r.fittedStates, r.lastMeasurementIndex)
         IN  [r |-> [r EXCEPT
                       !.reversed = TRUE,
                       !.fittedStates[r.lastMeasurementIndex + 1].smoothed =
                           st.filtered,
                       !.passedAgainSurfaces = Append(@, st.referenceSurface)],
              s |-> [s EXCEPT
                       !.navDir = navDir,
                       !.maxStepSize = maxStepSize,
                       !.pathLimit = navDir * Abs(s.pathLimit),
                       !.stepSize = maxStepSize,
                       !.startSurface = st.referenceSurface],
              res |-> Ok]

\* mutant: the path limit keeps its sign
reverse_keepsPathLimit(s, r) ==
    IF r.lastMeasurementIndex = SIZE_MAX
    THEN [r |-> r, s |-> s, res |-> "ReverseNavigationFailed"]
    ELSE LET navDir == IF s.navDir = Forward THEN Backward ELSE Forward
             maxStepSize == navDir * Abs(s.maxStepSize)
             st == getTrackState(r.fittedStates, r.lastMeasurementIndex)
         IN  [r |-> [r EXCEPT
                       !.reversed = TRUE,
                       !.fittedStates[r.lastMeasurementIndex + 1].smoothed =
                           st.filtered,
                       !.passedAgainSurfaces = Append(@, st.referenceSurface)],
              s |-> [s EXCEPT
                       !.navDir = navDir,
                       !.maxStepSize = maxStepSize,
                       !.stepSize = maxStepSize,
                       !.startSurface = st.referenceSurface],
              res |-> Ok]

reverse(s, r) ==
    IF r.lastMeasurementIndex = SIZE_MAX
    THEN [r |-> r, s |-> s, res |-> "ReverseNavigationFailed"]
    ELSE LET navDir == IF s.navDir = Forward THEN Backward ELSE Forward
             maxStepSize == navDir * Abs(s.maxStepSize)
             st == getTrackState(r.fittedStates, r.lastMeasurementIndex)
         IN  [r |-> [r EXCEPT
                       !.reversed = TRUE,
                       !.fittedStates[r.lastMeasurementIndex + 1].smoothed =
                           st.filtered,
                       !.passedAgainSurfaces = Append(@, st.referenceSurface)],
              s |-> [s EXCEPT
                       !.navDir = navDir,
                       !.maxStepSize = maxStepSize,
                       !.pathLimit = navDir * Abs(s.pathLimit),
                       !.stepSize = maxStepSize,
                       !.startSurface = st.referenceSurface],
              res |-> Ok]

----------------------------------------------------------------------------
(* Actor::reversedFilter, lines 645-773: the set of [r, res, updateRes] *)

\* mutant: the surface is remembered whether or not a forward state is on it
fillSmoothed_alwaysAppends(r, surface, filtered) ==
    LET chain == applyBackwards(r.fittedStates, r.lastMeasurementIndex)
        hits == {k \in 1..Len(chain) :
                   getTrackState(r.fittedStates, chain[k]).referenceSurface
                       = surface}
    IN  IF hits = {}
        THEN [r EXCEPT !.passedAgainSurfaces = Append(@, surface)]
        ELSE LET k == CHOOSE x \in hits : \A y \in hits : x <= y
             IN  [r EXCEPT !.passedAgainSurfaces = Append(@, surface),
                           !.fittedStates[chain[k] + 1].smoothed = filtered]

\* mutant: the state of the reversed pass becomes the track tip
fillSmoothed_advancesTip(r, surface, filtered) ==
    LET chain == applyBackwards(r.fittedStates, r.lastMeasurementIndex)
        hits == {k \in 1..Len(chain) :
                   getTrackState(r.fittedStates, chain[k]).referenceSurface
                       = surface}
    IN  IF hits = {} THEN [r EXCEPT !.lastTrackIndex = Len(r.fittedStates) - 1]
        ELSE LET k == CHOOSE x \in hits : \A y \in hits : x <= y
             IN  [r EXCEPT !.passedAgainSurfaces = Append(@, surface),
                           !.fittedStates[chain[k] + 1].smoothed = filtered,
                           !.lastTrackIndex = Len(r.fittedStates) - 1]

\* lines 720-732: the forward state on the surface takes the reversed
\* filtered value as its smoothed value; the walk stops at the first match
fillSmoothed(r, surface, filtered) ==
    LET chain == applyBackwards(r.fittedStates, r.lastMeasurementIndex)
        hits == {k \in 1..Len(chain) :
                   getTrackState(r.fittedStates, chain[k]).referenceSurface
                       = surface}
    IN  IF hits = {} THEN r
        ELSE LET k == CHOOSE x \in hits : \A y \in hits : x <= y
             IN  [r EXCEPT !.passedAgainSurfaces = Append(@, surface),
                           !.fittedStates[chain[k] + 1].smoothed = filtered]

\* mutant: the updater's error is replaced by a success
updateFailure_dropped(error) == Ok

\* lines 710-713: the updater's error is returned as it is
updateFailure(error) == error

\* mutant: the state of the reversed pass is linked to the track tip
reversedFilter_linked(surface, s, r) ==
    IF geometryId(surface) \in DOMAIN inputMeasurements
    THEN IF r.reversed /\ surface = s.startSurface
         THEN {[r |-> r, res |-> Ok, updateRes |-> "none"]}
         ELSE LET sourceLink == inputMeasurements[geometryId(surface)]
                  filtered == Value("filtered", surface, sourceLink.id, s.navDir)
                  detached == TrackState(surface, r.lastTrackIndex, {},
                                         sourceLink, filtered)
                  grown == [r EXCEPT !.fittedStates =
                                         addTrackState(@, detached)]
              IN  {[r |-> r, res |-> StepperError, updateRes |-> "none"]}
                  \cup {[r |-> grown, res |-> updateFailure(e),
                         updateRes |-> e] : e \in UpdaterErrors}
                  \cup {[r |-> fillSmoothed(grown, surface, filtered),
                         res |-> Ok, updateRes |-> Ok]}
    ELSE {[r |-> r, res |-> Ok, updateRes |-> "none"]}

reversedFilter(surface, s, r) ==
    IF geometryId(surface) \in DOMAIN inputMeasurements
    THEN IF r.reversed /\ surface = s.startSurface
         THEN {[r |-> r, res |-> Ok, updateRes |-> "none"]}
         ELSE LET sourceLink == inputMeasurements[geometryId(surface)]
                  filtered == Value("filtered", surface, sourceLink.id, s.navDir)
                  detached == TrackState(surface, SIZE_MAX, {}, sourceLink,
                                         filtered)
                  grown == [r EXCEPT !.fittedStates =
                                         addTrackState(@, detached)]
              IN  {[r |-> r, res |-> StepperError, updateRes |-> "none"]}
                  \cup {[r |-> grown, res |-> updateFailure(e),
                         updateRes |-> e] : e \in UpdaterErrors}
                  \cup {[r |-> fillSmoothed(grown, surface, filtered),
                         res |-> Ok, updateRes |-> Ok]}
    ELSE {[r |-> r, res |-> Ok, updateRes |-> "none"]}

----------------------------------------------------------------------------
(* Actor::finalize, lines 839-959: the set of [r, s, res] *)

PathLengths == {-2, -1, 1}

\* lines 848-860: the oldest state of the chain flagged measurement or material
firstState(fittedStates, chain, lastMeasurementIndex) ==
    LET marked == {k \in 1..Len(chain) :
                     getTrackState(fittedStates, chain[k]).typeFlags
                         \cap {"MeasurementFlag", "MaterialFlag"} # {}}
    IN  IF marked = {} THEN lastMeasurementIndex
        ELSE chain[CHOOSE x \in marked : \A y \in marked : y <= x]

\* the smoother extension on success: every state of the chain gets its
\* smoothed slot
smoother(fittedStates, chain) ==
    [i \in 1..Len(fittedStates) |->
        IF \E k \in 1..Len(chain) : chain[k] + 1 = i
        THEN [fittedStates[i] EXCEPT !.smoothed =
                 Value("smoothed", fittedStates[i].referenceSurface,
                       fittedStates[i].uncalibrated.id, 0)]
        ELSE fittedStates[i]]

\* mutant: the last measurement is preferred when both are equally far
targetStepping_lastOnTie(s, firstStateIndex, lastMeasurementIndex, firstPath, lastPath) ==
    LET closerTofirstCreatedState == Abs(firstPath) < Abs(lastPath)
        reverseDirection == IF closerTofirstCreatedState
                            THEN firstPath < 0 ELSE lastPath < 0
        navDir == IF reverseDirection
                  THEN (IF s.navDir = Forward THEN Backward ELSE Forward)
                  ELSE s.navDir
    IN  [s EXCEPT !.navDir = navDir,
                  !.stepSize = navDir * Abs(s.maxStepSize),
                  !.pathAccumulated = 0,
                  !.resetTo = IF closerTofirstCreatedState
                              THEN firstStateIndex ELSE lastMeasurementIndex]

\* lines 887-956: choose the endpoint closer to the target, reset the
\* stepper to its smoothed state, prepare stepping
targetStepping(s, firstStateIndex, lastMeasurementIndex, firstPath, lastPath) ==
    LET closerTofirstCreatedState == Abs(firstPath) <= Abs(lastPath)
        reverseDirection == IF closerTofirstCreatedState
                            THEN firstPath < 0 ELSE lastPath < 0
        navDir == IF reverseDirection
                  THEN (IF s.navDir = Forward THEN Backward ELSE Forward)
                  ELSE s.navDir
    IN  [s EXCEPT !.navDir = navDir,
                  !.stepSize = navDir * Abs(s.maxStepSize),
                  !.pathAccumulated = 0,
                  !.resetTo = IF closerTofirstCreatedState
                              THEN firstStateIndex ELSE lastMeasurementIndex]

finalize(s, r) ==
    LET r1 == [r EXCEPT !.smoothed = TRUE]
        chain == applyBackwards(r.fittedStates, r.lastMeasurementIndex)
        nStates == Len(chain)
        firstStateIndex == firstState(r.fittedStates, chain,
                                      r.lastMeasurementIndex)
        r2 == [r1 EXCEPT !.fittedStates = smoother(@, chain)]
    IN  IF nStates = 0
        THEN {[r |-> r1, s |-> s, res |-> "SmoothFailed"]}
        ELSE {[r |-> r1, s |-> s, res |-> SmootherError]}
             \cup (IF kalmanActor.targetSurface = NoSurface
                   THEN {[r |-> r2, s |-> s, res |-> Ok]}
                   ELSE {[r |-> r2,
                          s |-> targetStepping(s, firstStateIndex,
                                    r.lastMeasurementIndex, pf, pl),
                          res |-> Ok] :
                           pf \in PathLengths, pl \in PathLengths})

----------------------------------------------------------------------------
(* Actor::operator(), lines 318-468.  A context c = [r, s, l] is the fit   *)
(* result, the propagator state and the locals; each stage returns the set *)
(* of contexts it can end in.                                              *)

\* mutant: the result of a stage is stored whether or not it is an error
storeError_always(r, res) == [r EXCEPT !.result = res]

storeError(r, res) == IF res # Ok THEN [r EXCEPT !.result = res] ELSE r

\* mutant: the list of missed surfaces is left as it is
resize_noop(v, n) == v

\* mutant: the list is resized to one entry more than asked for
resize_oneMore(v, n) ==
    [i \in 1..(n + 1) |-> IF i <= Len(v) THEN v[i] ELSE NoSurface]

\* std::vector::resize: truncate, or pad with null pointers
resize(v, n) ==
    [i \in 1..n |-> IF i <= Len(v) THEN v[i] ELSE NoSurface]

\* lines 356-363
forwardStage(surface, c) ==
    IF surface # NoSurface /\ ~c.r.smoothed /\ ~c.r.reversed
    THEN {[c EXCEPT !.r = storeError(o.r, o.res), !.l.filterRes = o.res] :
            o \in filter(surface, c.s, c.r)}
    ELSE {c}

\* lines 364-371
reversedStage(surface, c) ==
    IF surface # NoSurface /\ c.r.reversed
    THEN {[c EXCEPT !.r = storeError(o.r, o.res),
                    !.l.reversedFilterRes = o.res,
                    !.l.updateRes = o.updateRes] :
            o \in reversedFilter(surface, c.s, c.r)}
    ELSE {c}

\* mutant: only a navigation break ends the forward pass
terminationReached_breakOnly(r, navigationBreak) ==
    r.measurementStates > 0 /\ navigationBreak

\* lines 379-381
terminationReached(r, navigationBreak) ==
    \/ r.measurementStates = Cardinality(DOMAIN inputMeasurements)
    \/ (r.measurementStates > 0 /\ navigationBreak)

\* mutant: only the reverse-filtering logic decides
reverseRequested_logicOnly(actor) == actor.extensions.reverseFilteringLogic

\* lines 387-388: the option, or else the reverse-filtering logic
reverseRequested(actor) ==
    actor.reversedFiltering \/ actor.extensions.reverseFilteringLogic

\* mutant: finalize runs after the reverse transition as well
terminationStage_noElse(navigationBreak, c) ==
    IF ~c.r.smoothed /\ ~c.r.reversed
       /\ terminationReached(c.r, navigationBreak)
    THEN LET r0 == [c.r EXCEPT !.missedActiveSurfaces =
                                   resize(@, c.r.measurementHoles)]
             rev == reverse(c.s, r0)
         IN  IF reverseRequested(kalmanActor)
             THEN {[r |-> storeError(o.r, o.res), s |-> o.s,
                    l |-> [c.l EXCEPT !.terminated = TRUE,
                                      !.reverseRes = rev.res,
                                      !.finalizeRes = o.res]] :
                     o \in finalize(rev.s, storeError(rev.r, rev.res))}
             ELSE {[r |-> storeError(o.r, o.res), s |-> o.s,
                    l |-> [c.l EXCEPT !.terminated = TRUE,
                                      !.finalizeRes = o.res]] :
                     o \in finalize(c.s, r0)}
    ELSE {c}

\* lines 378-411
terminationStage(navigationBreak, c) ==
    IF ~c.r.smoothed /\ ~c.r.reversed
       /\ terminationReached(c.r, navigationBreak)
    THEN LET r0 == [c.r EXCEPT !.missedActiveSurfaces =
                                   resize(@, c.r.measurementHoles)]
             rev == reverse(c.s, r0)
         IN  IF reverseRequested(kalmanActor)
             THEN {[r |-> storeError(rev.r, rev.res), s |-> rev.s,
                    l |-> [c.l EXCEPT !.terminated = TRUE,
                                      !.reverseRes = rev.res]]}
             ELSE {[r |-> storeError(o.r, o.res), s |-> o.s,
                    l |-> [c.l EXCEPT !.terminated = TRUE,
                                      !.finalizeRes = o.res]] :
                     o \in finalize(c.s, r0)}
    ELSE {c}

\* mutant: every state of the walk loses its smoothed slot
unsetMissed_clearsAll(r) ==
    LET chain == applyBackwards(r.fittedStates, r.lastMeasurementIndex)
    IN  [i \in 1..Len(r.fittedStates) |->
            IF \E k \in 1..Len(chain) : chain[k] + 1 = i
            THEN [r.fittedStates[i] EXCEPT !.smoothed = NoValue]
            ELSE r.fittedStates[i]]

\* lines 448-463: states the reversed pass did not visit lose their smoothed slot
unsetMissed(r) ==
    LET chain == applyBackwards(r.fittedStates, r.lastMeasurementIndex)
        passed == {r.passedAgainSurfaces[k] :
                     k \in 1..Len(r.passedAgainSurfaces)}
    IN  [i \in 1..Len(r.fittedStates) |->
            IF (\E k \in 1..Len(chain) : chain[k] + 1 = i)
               /\ r.fittedStates[i].referenceSurface \notin passed
            THEN [r.fittedStates[i] EXCEPT !.smoothed = NoValue]
            ELSE r.fittedStates[i]]

\* mutant: the fit is marked finished whatever the mode
noTargetSurface_finishes(c) == [c EXCEPT !.r.finished = TRUE]

\* lines 417-433: no target surface
noTargetSurface(c) ==
    IF c.r.reversed
    THEN [c EXCEPT !.r.result = "BackwardUpdateFailed"]
    ELSE [c EXCEPT !.r.finished = TRUE]

\* mutant: the fitted parameters are not assigned
completeAtTarget_noParameters(c) ==
    [c EXCEPT !.r.fittedStates = IF c.r.reversed THEN unsetMissed(c.r) ELSE @,
              !.r.finished = TRUE,
              !.l.targetReached = TRUE,
              !.l.boundRes = Ok]

\* lines 444-465: the target is reached and the state is bound to it
completeAtTarget(c) ==
    [c EXCEPT !.r.fittedParameters = "bound",
              !.r.fittedStates = IF c.r.reversed THEN unsetMissed(c.r) ELSE @,
              !.r.finished = TRUE,
              !.l.targetReached = TRUE,
              !.l.boundRes = Ok]

\* lines 416-467; SurfaceReached and stepper.boundState answer as the
\* propagation decides
targetStage(c) ==
    IF c.r.smoothed \/ c.r.reversed
    THEN IF kalmanActor.targetSurface = NoSurface
         THEN {noTargetSurface(c)}
         ELSE {c}
              \cup {[c EXCEPT !.r.result = StepperError,
                              !.l.targetReached = TRUE,
                              !.l.boundRes = StepperError]}
              \cup {completeAtTarget(c)}
    ELSE {c}

\* lines 329-340, for a navigator that is not the DirectNavigator: every
\* measurement surface is inserted into the navigator's external surfaces
injectionStage(c) ==
    IF c.r.processedStates = 0
    THEN [c EXCEPT !.s.externalSurfaces = @ \cup DOMAIN inputMeasurements,
                   !.l.injected = TRUE]
    ELSE c

\* mutant: the call does its stages although the fit is finished
operator_noEarlyReturn(surface, navigationBreak, c) ==
    UNION {UNION {UNION {targetStage(c3) :
                           c3 \in terminationStage(navigationBreak, c2)} :
                    c2 \in reversedStage(surface, c1)} :
             c1 \in forwardStage(surface, injectionStage(c))}

operator(surface, navigationBreak, c) ==
    IF c.r.finished THEN {c}
    ELSE UNION {UNION {UNION {targetStage(c3) :
                                c3 \in terminationStage(navigationBreak, c2)} :
                         c2 \in reversedStage(surface, c1)} :
                  c1 \in forwardStage(surface, injectionStage(c))}

\* mutant: a finished fit does not stop the propagation
Aborter_ignoresFinished(r) == r.result # Ok

\* Aborter::operator(), lines 967-982
Aborter(r) == r.result # Ok \/ r.finished

----------------------------------------------------------------------------
(* KalmanFitter::fit, lines 1004-1078 *)

\* mutant: a later source link replaces the one indexed for its geometry id
RECURSIVE emplaceAll_overwrites(_, _)
emplaceAll_overwrites(map, links) ==
    IF links = <<>> THEN map
    ELSE LET sl == Head(links)
         IN  emplaceAll_overwrites([g \in DOMAIN map \cup {sl.geo} |->
                                       IF g = sl.geo THEN sl ELSE map[g]],
                                   Tail(links))

\* lines 1014-1020: emplace keeps the first source link of a geometry id
RECURSIVE emplaceAll(_, _)
emplaceAll(map, links) ==
    IF links = <<>> THEN map
    ELSE LET sl == Head(links)
         IN  emplaceAll(IF sl.geo \in DOMAIN map THEN map
                        ELSE [g \in DOMAIN map \cup {sl.geo} |->
                                 IF g = sl.geo THEN sl ELSE map[g]],
                        Tail(links))

\* lines 1037-1048
configureActor(actor, options) ==
    [actor EXCEPT
       !.targetSurface = options.referenceSurface,
       !.multipleScattering = options.multipleScattering,
       !.energyLoss = options.energyLoss,
       !.reversedFiltering = options.reversedFiltering,
       !.reversedFilteringCovarianceScaling =
           options.reversedFilteringCovarianceScaling,
       !.freeToBoundCorrection = options.freeToBoundCorrection,
       !.extensions = options.extensions]

\* lines 1136-1143: the direct-navigator entry point
configureActorDirect(actor, options) ==
    [actor EXCEPT
       !.targetSurface = options.referenceSurface,
       !.multipleScattering = options.multipleScattering,
       !.energyLoss = options.energyLoss,
       !.reversedFiltering = options.reversedFiltering,
       !.reversedFilteringCovarianceScaling =
           options.reversedFilteringCovarianceScaling,
       !.extensions = options.extensions]

\* the propagator state at the start of propagate
initialState ==
    [navDir |-> Forward, maxStepSize |-> StepSizeMag,
     pathLimit |-> PathLimitMag, stepSize |-> StepSizeMag,
     startSurface |-> NoSurface, resetTo |-> SIZE_MAX,
     externalSurfaces |-> {}, pathAccumulated |-> 0]

\* lines 1063-1067
checkMeasurementStates(r) ==
    IF r.result = Ok /\ r.measurementStates = 0
    THEN [r EXCEPT !.result = "NoMeasurementFound"] ELSE r

\* Result<KalmanFitterResult>: an error, or a value (held as a sequence of
\* one element)
ResultError(e) == [ok |-> FALSE, error |-> e, value |-> <<>>]
ResultValue(v) == [ok |-> TRUE, error |-> "none", value |-> <<v>>]

\* mutant: a failed fit returns the fit result along with the error
fitReturn_carriesResult(pRes, r) ==
    IF pRes # Ok THEN ResultError(pRes)
    ELSE IF checkMeasurementStates(r).result # Ok
         THEN [ok |-> FALSE, error |-> checkMeasurementStates(r).result,
               value |-> <<checkMeasurementStates(r)>>]
         ELSE ResultValue(r)

\* lines 1053-1077
fitReturn(pRes, r) ==
    IF pRes # Ok THEN ResultError(pRes)
    ELSE IF checkMeasurementStates(r).result # Ok
         THEN ResultError(checkMeasurementStates(r).result)
         ELSE ResultValue(r)

MeasurementGeometry == {1, 3}

SourceLinkRanges ==
    UNION {{sl \in [1..n -> [id : 1..MaxLinks, geo : MeasurementGeometry]] :
              \A i \in 1..n : sl[i].id = i} : n \in 0..MaxLinks}

\* lines 283-305: the actor's member defaults; the answer of the
\* reverse-filtering logic extension for the track is fixed for the fit
DefaultActor ==
    [targetSurface |-> NoSurface, multipleScattering |-> TRUE,
     energyLoss |-> TRUE, reversedFiltering |-> FALSE,
     reversedFilteringCovarianceScaling |-> 1,
     freeToBoundCorrection |-> FALSE,
     extensions |-> [reverseFilteringLogic |-> FALSE]]

NotReturned == [ok |-> FALSE, error |-> "pending", value |-> <<>>]

\* lines 261-267: the fitter owns the propagator and nothing else
KalmanFitter == [m_propagator |-> "propagator"]

\* no other thread is inside fit
NoFit == <<>>

\* no function outside the fitter is being called
NoCall == <<>>

\* the reverse-filtering logic is consulted only when reversedFiltering is
\* false (line 387), so its answer is an input only then; the material
\* switches, the covariance scaling and the free-to-bound correction, which
\* act inside the stepper and the material interactor, are at their defaults
Init ==
    /\ sourceLinks \in SourceLinkRanges
    /\ kfOptions \in [referenceSurface : {NoSurface, TargetSurface},
                      multipleScattering : {TRUE},
                      energyLoss : {TRUE},
                      reversedFiltering : BOOLEAN,
                      reversedFilteringCovarianceScaling : {1},
                      freeToBoundCorrection : {FALSE},
                      extensions : [reverseFilteringLogic : BOOLEAN]]
    /\ kfOptions.reversedFiltering
          => ~kfOptions.extensions.reverseFilteringLogic
    /\ inputMeasurements = <<>>
    /\ kalmanActor = DefaultActor
    /\ state = initialState
    /\ result = KalmanFitterResult
    /\ locals = NoLocals
    /\ pc = "start"
    /\ propRes = "pending"
    /\ ret = NotReturned
    /\ fitter = KalmanFitter
    /\ suspended = NoFit
    /\ call = NoCall

\* FitEntry with the measurement index kept in a member of the fitter
FitEntry_indexInFitter ==
    /\ pc = "start"
    /\ inputMeasurements' = emplaceAll(<<>>, sourceLinks)
    /\ fitter' = [m_propagator |-> fitter.m_propagator,
                  inputMeasurements |-> emplaceAll(<<>>, sourceLinks)]
    /\ sourceLinks' = <<>>
    /\ kalmanActor' = configureActor(kalmanActor, kfOptions)
    /\ pc' = "propagate"
    /\ UNCHANGED <<kfOptions, state, result, locals, propRes, ret, suspended, call>>

\* lines 1010-1048: build the measurement index (the loop advances it to
\* end), configure the actor
FitEntry ==
    /\ pc = "start"
    /\ inputMeasurements' = emplaceAll(<<>>, sourceLinks)
    /\ sourceLinks' = <<>>
    /\ kalmanActor' = configureActor(kalmanActor, kfOptions)
    /\ pc' = "propagate"
    /\ UNCHANGED <<kfOptions, state, result, locals, propRes, ret,
                   fitter, suspended, call>>

\* one invocation of the action list on the surface the navigator reports;
\* navigationBreak is the navigator's flag at that moment
ActorCall(surface) ==
    UNION {operator(surface, navigationBreak,
                    [r |-> result, s |-> state,
                     l |-> [NoLocals EXCEPT !.invoked = TRUE]]) :
             navigationBreak \in BOOLEAN}

\* the propagator's stepping loop: step, navigator status, action list
PropagatorStep ==
    /\ pc = "propagate"
    /\ ~Aborter(result)
    /\ \E surface \in Surfaces \cup {NoSurface} :
       \E c \in ActorCall(surface) :
          /\ Len(c.r.fittedStates) <= MaxStates
          /\ result' = c.r
          /\ state' = c.s
          /\ locals' = c.l
    /\ UNCHANGED <<sourceLinks, kfOptions, inputMeasurements, kalmanActor, pc,
                   propRes, ret,
                   fitter, suspended, call>>

\* propagate returns its result and fit evaluates the fit result
\* (lines 1058-1077)
FitReturn ==
    /\ propRes' = Ok
    /\ result' = checkMeasurementStates(result)
    /\ ret' = fitReturn(Ok, result)
    /\ pc' = "returned"
    /\ UNCHANGED <<sourceLinks, kfOptions, inputMeasurements, kalmanActor,
                   state, locals,
                   fitter, suspended, call>>

\* the abort list after the action list: the Kalman aborter ends the loop
AborterStops ==
    /\ pc = "propagate"
    /\ locals.invoked
    /\ Aborter(result)
    /\ FitReturn

\* the abort list after the action list: the propagator's own path limit
\* ends the loop
PathLimitReached ==
    /\ pc = "propagate"
    /\ locals.invoked
    /\ ~Aborter(result)
    /\ FitReturn

\* the stepper or the navigator fails: propagate returns its error, which
\* fit returns (lines 1053-1056)
PropagationFails ==
    /\ pc = "propagate"
    /\ ~Aborter(result)
    /\ propRes' = PropagatorError
    /\ ret' = fitReturn(PropagatorError, result)
    /\ pc' = "returned"
    /\ UNCHANGED <<sourceLinks, kfOptions, inputMeasurements, kalmanActor,
                   state, result, locals,
                   fitter, suspended, call>>

Next ==
    \/ FitEntry
    \/ PropagatorStep
    \/ AborterStops
    \/ PathLimitReached
    \/ PropagationFails

Spec == Init /\ [][Next]_vars

\* the action list is invoked again although the fit is finished, with any
\* current surface
FinishedCall ==
    /\ pc = "propagate"
    /\ result.finished
    /\ \E surface \in Surfaces \cup {NoSurface, TargetSurface} :
       \E c \in ActorCall(surface) :
          /\ result' = c.r
          /\ state' = c.s
          /\ locals' = c.l
    /\ UNCHANGED <<sourceLinks, kfOptions, inputMeasurements, kalmanActor, pc,
                   propRes, ret,
                   fitter, suspended, call>>

NextFinishedCall == Next \/ FinishedCall

SpecFinishedCall == Init /\ [][NextFinishedCall]_vars

\* fits with the reversedFiltering option set, whatever the reverse-filtering
\* logic would answer
InitReversedFiltering ==
    /\ sourceLinks \in SourceLinkRanges
    /\ kfOptions \in [referenceSurface : {NoSurface, TargetSurface},
                      multipleScattering : {TRUE},
                      energyLoss : {TRUE},
                      reversedFiltering : {TRUE},
                      reversedFilteringCovarianceScaling : {1},
                      freeToBoundCorrection : {FALSE},
                      extensions : [reverseFilteringLogic : BOOLEAN]]
    /\ inputMeasurements = <<>>
    /\ kalmanActor = DefaultActor
    /\ state = initialState
    /\ result = KalmanFitterResult
    /\ locals = NoLocals
    /\ pc = "start"
    /\ propRes = "pending"
    /\ ret = NotReturned
    /\ fitter = KalmanFitter
    /\ suspended = NoFit
    /\ call = NoCall

SpecReversedFiltering == InitReversedFiltering /\ [][Next]_vars

\* the two entry points, with every option of the caller drawn freely
InitEntryPoints ==
    /\ sourceLinks \in SourceLinkRanges
    /\ kfOptions \in [referenceSurface : {NoSurface, TargetSurface},
                      multipleScattering : BOOLEAN,
                      energyLoss : BOOLEAN,
                      reversedFiltering : BOOLEAN,
                      reversedFilteringCovarianceScaling : {1, 2},
                      freeToBoundCorrection : BOOLEAN,
                      extensions : [reverseFilteringLogic : BOOLEAN]]
    /\ inputMeasurements = <<>>
    /\ kalmanActor = DefaultActor
    /\ state = initialState
    /\ result = KalmanFitterResult
    /\ locals = NoLocals
    /\ pc = "start"
    /\ propRes = "pending"
    /\ ret = NotReturned
    /\ fitter = KalmanFitter
    /\ suspended = NoFit
    /\ call = NoCall

\* lines 1101-1148: the entry point of the direct-navigator variant
FitEntryDirect ==
    /\ pc = "start"
    /\ inputMeasurements' = emplaceAll(<<>>, sourceLinks)
    /\ sourceLinks' = <<>>
    /\ kalmanActor' = configureActorDirect(kalmanActor, kfOptions)
    /\ pc' = "propagate"
    /\ UNCHANGED <<kfOptions, state, result, locals, propRes, ret,
                   fitter, suspended, call>>

NextEntryPoints == FitEntry \/ FitEntryDirect

SpecEntryPoints == InitEntryPoints /\ [][NextEntryPoints]_vars

----------------------------------------------------------------------------
(* Two fits on one fitter *)

\* everything one call of fit owns: its arguments, its locals (lines
\* 1014-1061) and the propagator state and result slot of its propagate call
FitContext(thread) ==
    [thread |-> thread, sourceLinks |-> sourceLinks, kfOptions |-> kfOptions,
     inputMeasurements |-> inputMeasurements, kalmanActor |-> kalmanActor,
     state |-> state, result |-> result, locals |-> locals, pc |-> pc,
     propRes |-> propRes, ret |-> ret]

Threads == {1, 2}

\* the inputs of the two concurrent calls: each caller has its own range of
\* source links and its own options
ConcurrentLinks == {sl \in SourceLinkRanges : Len(sl) <= 1}

ConcurrentOptions ==
    [referenceSurface : {NoSurface, TargetSurface},
     multipleScattering : {TRUE},
     energyLoss : {TRUE},
     reversedFiltering : {FALSE},
     reversedFilteringCovarianceScaling : {1},
     freeToBoundCorrection : {FALSE},
     extensions : [reverseFilteringLogic : {FALSE}]]

\* two threads have called fit on the same fitter; thread 1 is scheduled
InitTwoFits ==
    /\ sourceLinks \in ConcurrentLinks
    /\ kfOptions \in ConcurrentOptions
    /\ inputMeasurements = <<>>
    /\ kalmanActor = DefaultActor
    /\ state = initialState
    /\ result = KalmanFitterResult
    /\ locals = NoLocals
    /\ pc = "start"
    /\ propRes = "pending"
    /\ ret = NotReturned
    /\ fitter = KalmanFitter
    /\ suspended \in [thread : {2}, sourceLinks : ConcurrentLinks,
                      kfOptions : ConcurrentOptions,
                      inputMeasurements : {<<>>},
                      kalmanActor : {DefaultActor}, state : {initialState},
                      result : {KalmanFitterResult}, locals : {NoLocals},
                      pc : {"start"}, propRes : {"pending"},
                      ret : {NotReturned}]
    /\ call = NoCall

\* the scheduler takes the running thread off the processor and resumes the
\* other one where it was; the fitter is the one object both threads see
ContextSwitch ==
    /\ suspended # NoFit
    /\ suspended' = FitContext(CHOOSE t \in Threads : t # suspended.thread)
    /\ sourceLinks' = suspended.sourceLinks
    /\ kfOptions' = suspended.kfOptions
    /\ inputMeasurements' = suspended.inputMeasurements
    /\ kalmanActor' = suspended.kalmanActor
    /\ state' = suspended.state
    /\ result' = suspended.result
    /\ locals' = suspended.locals
    /\ pc' = suspended.pc
    /\ propRes' = suspended.propRes
    /\ ret' = suspended.ret
    /\ UNCHANGED <<fitter, call>>

\* the stepping loop of the scheduled thread's propagate call, in a detector
\* of one sensitive and one passive surface, each of which holds at most one
\* track state of a fit
ConcurrentSurfaces == {1, 5}

ConcurrentStep ==
    /\ pc = "propagate"
    /\ ~Aborter(result)
    /\ \E surface \in ConcurrentSurfaces \cup {NoSurface} :
       \E c \in ActorCall(surface) :
          /\ Len(c.r.fittedStates) <= Cardinality(ConcurrentSurfaces)
          /\ result' = c.r
          /\ state' = c.s
          /\ locals' = c.l
    /\ UNCHANGED <<sourceLinks, kfOptions, inputMeasurements, kalmanActor, pc,
                   propRes, ret, fitter, suspended, call>>

NextTwoFits ==
    \/ FitEntry
    \/ ConcurrentStep
    \/ AborterStops
    \/ PathLimitReached
    \/ PropagationFails
    \/ ContextSwitch

SpecTwoFits == InitTwoFits /\ [][NextTwoFits]_vars

----------------------------------------------------------------------------
(* Functions outside the fitter *)

\* while such a function is called no fit is in progress
NoFitInProgress ==
    /\ sourceLinks = <<>>
    /\ kfOptions = [referenceSurface |-> NoSurface,
                    multipleScattering |-> TRUE, energyLoss |-> TRUE,
                    reversedFiltering |-> FALSE,
                    reversedFilteringCovarianceScaling |-> 1,
                    freeToBoundCorrection |-> FALSE,
                    extensions |-> [reverseFilteringLogic |-> FALSE]]
    /\ inputMeasurements = <<>>
    /\ kalmanActor = DefaultActor
    /\ state = initialState
    /\ result = KalmanFitterResult
    /\ locals = NoLocals
    /\ pc = "start"
    /\ propRes = "pending"
    /\ ret = NotReturned
    /\ fitter = KalmanFitter
    /\ suspended = NoFit

fitVars == <<sourceLinks, kfOptions, inputMeasurements, kalmanActor, state,
             result, locals, pc, propRes, ret, fitter, suspended>>

\* the return slot of a call: empty until the function returns
NotYet == <<>>

ReturnValue(value) == <<value>>

\* float and double values as exact fractions in lowest terms
RECURSIVE Gcd(_, _)
Gcd(a, b) == IF b = 0 THEN a ELSE Gcd(b, a % b)

Fraction(n, d) ==
    LET g == Gcd(Abs(n), Abs(d))
        sign == IF d < 0 THEN -1 ELSE 1
    IN  [n |-> sign * (n \div g), d |-> sign * (d \div g)]

Product(x, y) == Fraction(x.n * y.n, x.d * y.d)

Quotient(x, y) == Fraction(x.n * y.d, x.d * y.n)

\* Acts::UnitConstants::mm and the literal 1_mm: the internal length unit is
\* the millimetre
mm == Fraction(1, 1)

Infinity == "infinity"
IntMax == "int max"

\* lines 19-72: the members with their default initialisers
SeedFilterConfig ==
    [deltaInvHelixDiameter |-> Quotient(Fraction(3, 100000), mm),
     impactWeightFactor |-> Fraction(1, 1),
     compatSeedWeight |-> Fraction(200, 1),
     deltaRMin |-> Product(Fraction(5, 1), mm),
     maxSeedsPerSpM |-> 10,
     compatSeedLimit |-> 2,
     curvatureSortingInFilter |-> FALSE,
     seedWeightIncrement |-> Fraction(0, 1),
     numSeedIncrement |-> Infinity,
     seedConfirmation |-> FALSE,
     centralSeedConfirmationRange |-> "default",
     forwardSeedConfirmationRange |-> "default",
     seedConfMinBottomRadius |-> Product(Fraction(60, 1), mm),
     seedConfMaxZOrigin |-> Product(Fraction(150, 1), mm),
     minImpactSeedConf |-> Product(Fraction(1, 1), mm),
     maxSeedsPerSpMConf |-> IntMax,
     maxQualitySeedsPerSpMConf |-> IntMax,
     useDeltaRorTopRadius |-> FALSE]

\* toInternalUnits with the lengths divided by a metre
toInternalUnits_perMetre(config) ==
    LET m == Fraction(1000, 1)
    IN  [config EXCEPT
            !.deltaRMin = Quotient(@, m),
            !.deltaInvHelixDiameter = Quotient(@, Quotient(Fraction(1, 1), m)),
            !.seedConfMinBottomRadius = Quotient(@, m),
            !.seedConfMaxZOrigin = Quotient(@, m),
            !.minImpactSeedConf = Quotient(@, m)]

\* lines 74-84: a copy of *this with five members divided
toInternalUnits(config) ==
    [config EXCEPT
        !.deltaRMin = Quotient(@, mm),
        !.deltaInvHelixDiameter = Quotient(@, Quotient(Fraction(1, 1), mm)),
        !.seedConfMinBottomRadius = Quotient(@, mm),
        !.seedConfMaxZOrigin = Quotient(@, mm),
        !.minImpactSeedConf = Quotient(@, mm)]

MaxApplications == 2    \* how often a caller converts a config again

\* the configs a caller sets up: the defaults with some members replaced
SeedFilterConfigs ==
    {[SeedFilterConfig EXCEPT
         !.deltaRMin = c.deltaRMin,
         !.deltaInvHelixDiameter = c.deltaInvHelixDiameter,
         !.seedConfMinBottomRadius = c.seedConfMinBottomRadius,
         !.seedConfMaxZOrigin = c.seedConfMaxZOrigin,
         !.minImpactSeedConf = c.minImpactSeedConf,
         !.seedConfirmation = c.seedConfirmation,
         !.curvatureSortingInFilter = c.curvatureSortingInFilter] :
       c \in [deltaRMin : {Fraction(5, 1), Fraction(20, 1)},
              deltaInvHelixDiameter : {Fraction(3, 100000), Fraction(1, 1000)},
              seedConfMinBottomRadius : {Fraction(60, 1), Fraction(0, 1)},
              seedConfMaxZOrigin : {Fraction(150, 1), Fraction(75, 2)},
              minImpactSeedConf : {Fraction(1, 1), Fraction(1, 2)},
              seedConfirmation : BOOLEAN,
              curvatureSortingInFilter : BOOLEAN]}

InitToInternalUnits ==
    /\ NoFitInProgress
    /\ call \in [function : {"toInternalUnits"}, self : SeedFilterConfigs,
                  returned : {NotYet}, applications : {0}]

\* the call returns the converted copy
ToInternalUnits ==
    /\ call.function = "toInternalUnits"
    /\ call.returned = NotYet
    /\ call' = [call EXCEPT !.returned = ReturnValue(toInternalUnits(call.self)),
                            !.applications = @ + 1]
    /\ UNCHANGED fitVars

\* the caller calls toInternalUnits on the config it got back
ConvertAgain ==
    /\ call.function = "toInternalUnits"
    /\ call.returned # NotYet
    /\ call.applications < MaxApplications
    /\ call' = [call EXCEPT !.self = call.returned[1], !.returned = NotYet]
    /\ UNCHANGED fitVars

NextToInternalUnits == ToInternalUnits \/ ConvertAgain

SpecToInternalUnits == InitToInternalUnits /\ [][NextToInternalUnits]_vars

\* double values: a fraction in lowest terms when finite, with d = 0 for
\* the infinities (n = 1, n = -1) and for NaN (n = 0)
NaN == [n |-> 0, d |-> 0]

Inf(sign) == [n |-> sign, d |-> 0]

Zero == Fraction(0, 1)

One == Fraction(1, 1)

IsNaN(x) == x.d = 0 /\ x.n = 0

IsInf(x) == x.d = 0 /\ x.n # 0

IsFinite(x) == x.d # 0

Sign(x) == IF x.n > 0 THEN 1 ELSE IF x.n < 0 THEN -1 ELSE 0

LargestFinite == 16     \* the largest finite magnitude of the number format

\* the smallest positive magnitude; as with IEEE doubles, whose smallest
\* subnormal is 2^-1074 while the largest finite value is below 2^1024, its
\* reciprocal is not representable
SmallestPositive == Fraction(1, 4 * LargestFinite)

\* the result of an operation on finite operands: overflow gives an
\* infinity, underflow gives zero
Round(x) ==
    IF Abs(x.n) > LargestFinite * x.d THEN Inf(Sign(x))
    ELSE IF x.n # 0 /\ Abs(x.n) * SmallestPositive.d < x.d * SmallestPositive.n
         THEN Zero
         ELSE x

Plus(x, y) ==
    IF IsNaN(x) \/ IsNaN(y) THEN NaN
    ELSE IF IsInf(x) /\ IsInf(y) THEN (IF x = y THEN x ELSE NaN)
    ELSE IF IsInf(x) THEN x
    ELSE IF IsInf(y) THEN y
    ELSE LET g == Gcd(x.d, y.d)
         IN  Round(Fraction(x.n * (y.d \div g) + y.n * (x.d \div g),
                            (x.d \div g) * y.d))

Negative(x) == [n |-> -x.n, d |-> x.d]

Minus(x, y) == Plus(x, Negative(y))

Times(x, y) ==
    IF IsNaN(x) \/ IsNaN(y) THEN NaN
    ELSE IF IsInf(x) \/ IsInf(y)
         THEN (IF Sign(x) * Sign(y) = 0 THEN NaN
               ELSE Inf(Sign(x) * Sign(y)))
         ELSE LET g == Gcd(Abs(x.n), y.d)
                  h == Gcd(Abs(y.n), x.d)
              IN  Round(Fraction((x.n \div g) * (y.n \div h),
                                 (x.d \div h) * (y.d \div g)))

Over(x, y) ==
    IF IsNaN(x) \/ IsNaN(y) THEN NaN
    ELSE IF IsInf(x)
         THEN (IF IsInf(y) THEN NaN
               ELSE Inf(Sign(x) * (IF Sign(y) < 0 THEN -1 ELSE 1)))
    ELSE IF IsInf(y) THEN Zero
    ELSE IF y.n = 0 THEN (IF x.n = 0 THEN NaN ELSE Inf(Sign(x)))
    ELSE LET g == Gcd(Abs(x.n), Abs(y.n))
             h == Gcd(x.d, y.d)
         IN  Round(Fraction((x.n \div g) * (y.d \div h),
                            (x.d \div h) * (y.n \div g)))

\* Eigen vectors are sequences of doubles, matrices sequences of rows
RECURSIVE Sum(_, _)
Sum(terms, n) == IF n = 0 THEN Zero ELSE Plus(Sum(terms, n - 1), terms[n])

Dot(u, v) == Sum([i \in 1..Len(u) |-> Times(u[i], v[i])], Len(u))

Column(A, j) == [i \in 1..Len(A) |-> A[i][j]]

transpose(A) == [j \in 1..Len(A[1]) |-> Column(A, j)]

MatrixTimesVector(A, v) == [i \in 1..Len(A) |-> Dot(A[i], v)]

VectorTimesMatrix(v, A) == [j \in 1..Len(A[1]) |-> Dot(v, Column(A, j))]

MatrixTimesMatrix(A, B) ==
    [i \in 1..Len(A) |-> [j \in 1..Len(B[1]) |-> Dot(A[i], Column(B, j))]]

MatrixPlus(A, B) ==
    [i \in 1..Len(A) |-> [j \in 1..Len(A[i]) |-> Plus(A[i][j], B[i][j])]]

\* the difference of two vectors taken as their sum
VectorMinus_sum(u, v) == [i \in 1..Len(u) |-> Plus(u[i], v[i])]

VectorMinus(u, v) == [i \in 1..Len(u) |-> Minus(u[i], v[i])]

head(v, n) == [i \in 1..n |-> v[i]]

topLeftCorner(A, rows, cols) ==
    [i \in 1..rows |-> [j \in 1..cols |-> A[i][j]]]

\* the matrix without row i and column j
Minor(A, i, j) ==
    [r \in 1..(Len(A) - 1) |->
        [c \in 1..(Len(A) - 1) |->
            A[IF r < i THEN r ELSE r + 1][IF c < j THEN c ELSE c + 1]]]

RECURSIVE determinant(_)
determinant(A) ==
    IF Len(A) = 1 THEN A[1][1]
    ELSE Sum([j \in 1..Len(A) |->
                 LET term == Times(A[1][j], determinant(Minor(A, 1, j)))
                 IN  IF j % 2 = 1 THEN term ELSE Negative(term)],
             Len(A))

Cofactor(A, i, j) ==
    LET minor == determinant(Minor(A, i, j))
    IN  IF (i + j) % 2 = 0 THEN minor ELSE Negative(minor)

\* the inverse of a small fixed-size matrix: the reciprocal for size 1, the
\* transposed cofactors times the reciprocal of the determinant otherwise
inverse(A) ==
    IF Len(A) = 1 THEN <<<<Over(One, A[1][1])>>>>
    ELSE LET invdet == Over(One, determinant(A))
         IN  [i \in 1..Len(A) |->
                 [j \in 1..Len(A) |-> Times(Cofactor(A, j, i), invdet)]]

MeasurementSizeMax == 2    \* rows of a full measurement and of the projector

eBoundSize == 2            \* number of bound track parameters

\* the size visitor: the arguments it calls the lambda with are the leading
\* dim components of the measurement and the leading dim x dim block of its
\* covariance
visit_measurement(param, cov, dim) ==
    [calibrated |-> head(param, dim),
     calibratedCovariance |-> topLeftCorner(cov, dim, dim)]

\* calculateChi2 with the residual and the projector taken at full size
calculateChi2_fullSize(fullCalibrated, fullCalibratedCovariance, predicted, predictedCovariance, projector, calibratedSize) ==
    LET H == projector
        res == VectorMinus(fullCalibrated, MatrixTimesVector(H, predicted))
        S == MatrixPlus(fullCalibratedCovariance,
                        MatrixTimesMatrix(
                            MatrixTimesMatrix(H, predictedCovariance),
                            transpose(H)))
    IN  Dot(VectorTimesMatrix(res, inverse(S)), res)

\* lines 13-50
calculateChi2(fullCalibrated, fullCalibratedCovariance, predicted, predictedCovariance, projector, calibratedSize) ==
    LET lambda(calibrated, calibratedCovariance) ==
            LET kMeasurementSize == Len(calibrated)
                H == topLeftCorner(projector, kMeasurementSize, eBoundSize)
                res == VectorMinus(calibrated, MatrixTimesVector(H, predicted))
            IN  Dot(VectorTimesMatrix(
                        res,
                        inverse(MatrixPlus(
                            calibratedCovariance,
                            MatrixTimesMatrix(
                                MatrixTimesMatrix(H, predictedCovariance),
                                transpose(H))))),
                    res)
        visited == visit_measurement(fullCalibrated, fullCalibratedCovariance,
                                     calibratedSize)
    IN  lambda(visited.calibrated, visited.calibratedCovariance)

\* the arguments a caller passes: measurements with components 0 or 1,
\* three parameter vectors, diagonal measurement covariances that differ in
\* the leading and in the last entry, two predicted covariances and two
\* projectors
Measurements == [1..MeasurementSizeMax -> {Zero, One}]

Parameters ==
    {[j \in 1..eBoundSize |-> Zero],
     [j \in 1..eBoundSize |-> One],
     [j \in 1..eBoundSize |-> IF j = 1 THEN One ELSE Zero]}

MeasurementCovariances ==
    {[i \in 1..MeasurementSizeMax |->
         [j \in 1..MeasurementSizeMax |->
             IF i # j THEN Zero
             ELSE IF i = MeasurementSizeMax THEN last ELSE leading]] :
       leading \in {One, SmallestPositive}, last \in {One, Fraction(2, 1)}}

Covariances ==
    {[i \in 1..eBoundSize |-> [j \in 1..eBoundSize |-> Zero]],
     [i \in 1..eBoundSize |->
         [j \in 1..eBoundSize |-> IF i = j THEN Fraction(2, 1) ELSE One]]}

Projectors ==
    {[i \in 1..MeasurementSizeMax |->
         [j \in 1..eBoundSize |-> IF i = j THEN One ELSE Zero]],
     [i \in 1..MeasurementSizeMax |->
         [j \in 1..eBoundSize |->
             IF i + j = eBoundSize + 1 THEN One ELSE Zero]]}

InitCalculateChi2 ==
    /\ NoFitInProgress
    /\ call \in [function : {"calculateChi2"},
                 fullCalibrated : Measurements,
                 fullCalibratedCovariance : MeasurementCovariances,
                 predicted : Parameters,
                 predictedCovariance : Covariances,
                 projector : Projectors,
                 calibratedSize : 1..MeasurementSizeMax,
                 returned : {NotYet}]

CalculateChi2 ==
    /\ call.function = "calculateChi2"
    /\ call.returned = NotYet
    /\ call' = [call EXCEPT !.returned =
                   ReturnValue(calculateChi2(
                       call.fullCalibrated, call.fullCalibratedCovariance,
                       call.predicted, call.predictedCovariance,
                       call.projector, call.calibratedSize))]
    /\ UNCHANGED fitVars

NextCalculateChi2 == CalculateChi2

SpecCalculateChi2 == InitCalculateChi2 /\ [][NextCalculateChi2]_vars

\* the end of finalize with a target surface (lines 887-958) on its own: the
\* propagator state at that point, the two endpoints of the smoothed chain
\* and the signed path lengths of their intersections with the target
SteppingStates ==
    {[initialState EXCEPT !.navDir = navDir,
                          !.maxStepSize = maxStepSize,
                          !.stepSize = stepSize,
                          !.pathAccumulated = pathAccumulated] :
       navDir \in {Forward, Backward},
       maxStepSize \in {StepSizeMag, -StepSizeMag},
       stepSize \in {1, StepSizeMag},
       pathAccumulated \in 0..PathLimitMag}

InitTargetStepping ==
    /\ NoFitInProgress
    /\ call \in [function : {"targetStepping"},
                 state : SteppingStates,
                 firstStateIndex : 0..(MaxStates - 1),
                 lastMeasurementIndex : 0..(MaxStates - 1),
                 firstPath : PathLengths,
                 lastPath : PathLengths,
                 returned : {NotYet}]
    /\ call.firstStateIndex <= call.lastMeasurementIndex

TargetStepping ==
    /\ call.function = "targetStepping"
    /\ call.returned = NotYet
    /\ call' = [call EXCEPT !.returned =
                   ReturnValue(targetStepping(call.state, call.firstStateIndex,
                                              call.lastMeasurementIndex,
                                              call.firstPath, call.lastPath))]
    /\ UNCHANGED fitVars

NextTargetStepping == TargetStepping

SpecTargetStepping == InitTargetStepping /\ [][NextTargetStepping]_vars

\* the last invocation of the actor stored an error
ErrorStoredByLastCall ==
    \E res \in {locals.filterRes, locals.reversedFilterRes, locals.reverseRes,
                 locals.finalizeRes, locals.boundRes} : res \notin {"none", Ok}

\* the action list is invoked once more after the invocation that stored an
\* error: the aborter ends the propagation only at its next check
ErrorCall ==
    /\ pc = "propagate"
    /\ result.result # Ok
    /\ ErrorStoredByLastCall
    /\ \E surface \in Surfaces \cup {NoSurface} :
       \E c \in ActorCall(surface) :
          /\ Len(c.r.fittedStates) <= MaxStates
          /\ result' = c.r
          /\ state' = c.s
          /\ locals' = c.l
    /\ UNCHANGED <<sourceLinks, kfOptions, inputMeasurements, kalmanActor, pc,
                   propRes, ret,
                   fitter, suspended, call>>

NextErrorCall == Next \/ ErrorCall

\* fits of at most one source link
InitErrorCall == Init /\ Len(sourceLinks) <= 1

SpecErrorCall == InitErrorCall /\ [][NextErrorCall]_vars


\* the forward filter called along a forward pass: on the initial fit result
\* and, after a call that succeeded, while the measurement states are fewer
\* than the indexed measurements (lines 356-358, 378-381)
ForwardFilterCall ==
    /\ pc = "propagate"
    /\ IF call = NoCall THEN TRUE ELSE call.returned = ReturnValue(Ok)
    /\ IF result = KalmanFitterResult THEN TRUE
       ELSE result.measurementStates < Cardinality(DOMAIN inputMeasurements)
    /\ \E surface \in Surfaces :
       \E o \in filter(surface, state, result) :
          /\ Len(o.r.fittedStates) <= MaxStates
          /\ result' = o.r
          /\ call' = [function |-> "filter", surface |-> surface,
                      result |-> result, material |-> o.material,
                      returned |-> ReturnValue(o.res)]
    /\ UNCHANGED <<sourceLinks, kfOptions, inputMeasurements, kalmanActor,
                   state, locals, pc, propRes, ret, fitter, suspended>>

NextForwardFilter == FitEntry \/ ForwardFilterCall

SpecForwardFilter == Init /\ [][NextForwardFilter]_vars


----------------------------------------------------------------------------
(* Properties *)

Returned == pc = "returned"
PropagationSucceeded == propRes = Ok
Success == Returned /\ ret.ok
ReturnedError(e) == Returned /\ ~ret.ok /\ ret.error = e
TerminationRan == result.smoothed \/ result.reversed
\* fit was entered with an empty source-link range: the map holds a link
\* exactly when the range held one
EmptyInput == pc # "start" /\ DOMAIN inputMeasurements = {}
NonEmptyInput == pc # "start" /\ DOMAIN inputMeasurements # {}

flagsOf(i) == getTrackState(result.fittedStates, i).typeFlags
surfaceOf(i) == getTrackState(result.fittedStates, i).referenceSurface

\* the states linked into the forward chain
ForwardIndices ==
    LET chain == applyBackwards(result.fittedStates, result.lastTrackIndex)
    IN  {chain[k] : k \in 1..Len(chain)}
HoleIndices == {i \in ForwardIndices : "HoleFlag" \in flagsOf(i)}
RankOfHole(h) == Cardinality({g \in HoleIndices : g <= h})
\* the hole states whose surfaces are those kept in missedActiveSurfaces
KeptHoles ==
    {h \in HoleIndices : RankOfHole(h) <= Len(result.missedActiveSurfaces)}
KeptHolesMatch ==
    /\ Cardinality(KeptHoles) = Len(result.missedActiveSurfaces)
    /\ \A h \in KeptHoles :
          result.missedActiveSurfaces[RankOfHole(h)] = surfaceOf(h)
LastIndexTagged(flags) ==
    LET tagged == {i \in ForwardIndices : flagsOf(i) \cap flags # {}}
    IN  IF tagged = {} THEN SIZE_MAX
        ELSE CHOOSE i \in tagged : \A j \in tagged : j <= i

\* C1: a fit with an empty source-link range, reversed filtering not
\* requested (neither by the option nor by the logic extension), returns the
\* error NoMeasurementFound whenever the propagation itself succeeds.
C1_EmptyReturnsNoMeasurementFound ==
    (Returned /\ PropagationSucceeded /\ EmptyInput
       /\ ~kfOptions.reversedFiltering
       /\ ~kfOptions.extensions.reverseFilteringLogic)
    => ReturnedError("NoMeasurementFound")

\* C2: a fit that returns success has measurementStates >= 1, a
\* lastMeasurementIndex that is an index of the arena, and
\* processedStates >= measurementStates + measurementHoles.
C2_SuccessCounters ==
    Success =>
        /\ result.measurementStates >= 1
        /\ result.lastMeasurementIndex # SIZE_MAX
        /\ result.lastMeasurementIndex \in 0..(Len(result.fittedStates) - 1)
        /\ result.processedStates
              >= result.measurementStates + result.measurementHoles

C2_Witness ==
    Success /\ result.measurementHoles >= 1 /\ result.measurementStates >= 2

\* C3: in forward filtering, whenever an actor invocation creates a state
\* tagged Hole or appends a surface to missedActiveSurfaces,
\* measurementStates > 0 held before that invocation.
C3_HoleRecorded ==
    /\ ~TerminationRan
    /\ locals'.filterRes = Ok
    /\ Len(result'.fittedStates) = Len(result.fittedStates) + 1
    /\ "HoleFlag" \in result'.fittedStates[Len(result'.fittedStates)].typeFlags

C3_HoleOnlyAfterFirstMeasurement ==
    [][C3_HoleRecorded => result.measurementStates > 0]_vars

\* C4 (as claimed): after the termination step every surface left in
\* missedActiveSurfaces was crossed before the last state tagged Measurement
\* was created, and the holes crossed after that state are dropped.
C4_HolesBeforeLastMeasurementTag ==
    TerminationRan =>
        /\ KeptHolesMatch
        /\ \A h \in HoleIndices :
              h \in KeptHoles <=> h < LastIndexTagged({"MeasurementFlag"})

\* C4 (amended): after the termination step the surfaces left in
\* missedActiveSurfaces are exactly the holes crossed before the last state
\* created on a measurement surface, accepted or outlier (the state at
\* lastMeasurementIndex); the holes crossed after it are dropped.
C4_HolesBeforeLastMeasurementSurface ==
    TerminationRan =>
        /\ KeptHolesMatch
        /\ result.lastMeasurementIndex
              = LastIndexTagged({"MeasurementFlag", "OutlierFlag"})
        /\ \A h \in HoleIndices :
              h \in KeptHoles <=> h < result.lastMeasurementIndex

C4_Witness ==
    /\ TerminationRan
    /\ result.measurementStates >= 1
    /\ "OutlierFlag" \in flagsOf(result.lastMeasurementIndex)
    /\ \E h \in KeptHoles : h > LastIndexTagged({"MeasurementFlag"})

\* C5: the forward filter handles a measurement surface and the new state is
\* an outlier
C5_OutlierHandled ==
    /\ ~TerminationRan
    /\ locals'.filterRes = Ok
    /\ Len(result'.fittedStates) = Len(result.fittedStates) + 1
    /\ "OutlierFlag" \in result'.fittedStates[Len(result'.fittedStates)].typeFlags

\* C5 (as claimed): on an outlier a state is appended and lastTrackIndex
\* advances to it, measurementStates and lastMeasurementIndex are unchanged.
C5_OutlierLeavesLastMeasurementIndex ==
    [][C5_OutlierHandled =>
         /\ result'.lastTrackIndex = Len(result.fittedStates)
         /\ result'.measurementStates = result.measurementStates
         /\ result'.lastMeasurementIndex = result.lastMeasurementIndex]_vars

\* C5 (amended): on an outlier a state is appended and lastTrackIndex
\* advances to it, measurementStates is unchanged, and lastMeasurementIndex
\* is set to the new state's index; processedStates grows by one and
\* measurementHoles is refreshed from missedActiveSurfaces.
C5_OutlierAdvancesLastMeasurementIndex ==
    [][C5_OutlierHandled =>
         /\ result'.lastTrackIndex = Len(result.fittedStates)
         /\ result'.measurementStates = result.measurementStates
         /\ result'.lastMeasurementIndex = Len(result.fittedStates)
         /\ result'.processedStates = result.processedStates + 1
         /\ result'.measurementHoles = Len(result.missedActiveSurfaces)]_vars

C5_Witness ==
    /\ pc = "propagate"
    /\ ~TerminationRan
    /\ locals.filterRes = Ok
    /\ result.lastTrackIndex # SIZE_MAX
    /\ "OutlierFlag" \in flagsOf(result.lastTrackIndex)
    /\ result.lastMeasurementIndex = result.lastTrackIndex
    /\ result.measurementStates = 1
    /\ result.lastTrackIndex = 2

\* C6: once the termination step has run (smoothed, reversed or finished),
\* and in every fit result returned as a success, the length of
\* missedActiveSurfaces equals measurementHoles.
C6_MissedEqualsHoles ==
    (result.smoothed \/ result.reversed \/ result.finished \/ Success)
    => Len(result.missedActiveSurfaces) = result.measurementHoles

\* C7: whenever finished is set, no target surface was requested or the
\* fitted parameters are set, and the invocation that sets finished with a
\* target surface is one that found the target reached and bound the state
\* to it; the fitted parameters are never set without a target surface.
C7_FinishedMeansTargetBound ==
    /\ [](result.finished =>
             \/ kfOptions.referenceSurface = NoSurface
             \/ result.fittedParameters = "bound")
    /\ [](kfOptions.referenceSurface = NoSurface
             => result.fittedParameters = "nullopt")
    /\ [][(~result.finished /\ result'.finished
             /\ kfOptions.referenceSurface # NoSurface)
          => (locals'.targetReached /\ locals'.boundRes = Ok)]_vars

C7_Witness ==
    /\ result.finished
    /\ kalmanActor.targetSurface = TargetSurface
    /\ locals.targetReached
    /\ result.fittedParameters = "bound"
    /\ result.measurementStates = 2

\* C8: once the reverse transition is taken with no target surface
\* configured, result.result holds BackwardUpdateFailed, finished is not set,
\* and the fit, when it returns, returns an error.
C8_ReversedWithoutTargetFails ==
    (result.reversed /\ kalmanActor.targetSurface = NoSurface)
    => /\ result.result = "BackwardUpdateFailed"
       /\ ~result.finished
       /\ Returned => ~ret.ok
       /\ (Returned /\ PropagationSucceeded)
             => ReturnedError("BackwardUpdateFailed")

C8_Witness ==
    /\ result.reversed
    /\ kalmanActor.targetSurface = NoSurface
    /\ kfOptions.reversedFiltering
    /\ result.measurementStates = 2
    /\ ReturnedError("BackwardUpdateFailed")

\* an invocation in which the reverse transition fails
C9_ReverseFailed == locals'.reverseRes = "ReverseNavigationFailed"

C10_UpdaterFailed == result.reversed /\ locals.updateRes \in UpdaterErrors

C12_FinishedCallIsNoOp ==
    [][(result.finished /\ pc = "propagate" /\ pc' = "propagate")
       => (result' = result /\ state' = state)]_vars

\* an invocation has happened on a finished fit that was bound to the target
\* after reversed filtering: none of the stages ran in it
C12_Witness ==
    /\ pc = "propagate"
    /\ result.finished /\ result.reversed
    /\ result.fittedParameters = "bound"
    /\ locals.invoked
    /\ ~locals.terminated /\ ~locals.targetReached
    /\ locals.reversedFilterRes = "none"

\* the condition under which the aborter is claimed to stop the propagation
C13_StopCondition == result.finished \/ result.result # Ok

\* C13: the aborter returns stop if and only if the fit result has finished
\* set or its result slot holds an error: the actor is invoked again only
\* when neither holds, and when one holds after an invocation the propagation
\* ends there; the aborter's evaluation changes neither the fit result nor
\* the propagator state.
C13_AborterStopsExactly ==
    /\ [][(pc = "propagate" /\ pc' = "propagate") => ~C13_StopCondition]_vars
    /\ [][(pc = "propagate" /\ locals.invoked /\ C13_StopCondition)
          => /\ pc' = "returned" /\ propRes' = Ok
             /\ result' = result /\ state' = state]_vars
    /\ [](pc = "propagate" => (Aborter(result) <=> C13_StopCondition))

\* the aborter ended the propagation of a finished fit without error
C13_Witness ==
    /\ Returned /\ PropagationSucceeded
    /\ result.finished /\ result.result = Ok
    /\ result.measurementStates = 2

\* C14: with the reversedFiltering option set, the termination step takes the
\* reverse transition whatever the reverse-filtering logic answers: finalize
\* and its smoother are never invoked and smoothed never becomes true.
C14_OptionForcesReverse ==
    kfOptions.reversedFiltering =>
        /\ ~result.smoothed
        /\ locals.finalizeRes = "none"
        /\ locals.terminated => locals.reverseRes # "none"
        /\ \A i \in 1..Len(result.fittedStates) :
              result.fittedStates[i].smoothed.kind # "smoothed"

\* the logic would have chosen the smoother, the option forced the reversal
C14_Witness ==
    /\ kfOptions.reversedFiltering
    /\ ~kfOptions.extensions.reverseFilteringLogic
    /\ locals.terminated /\ locals.reverseRes = Ok
    /\ result.reversed
    /\ result.measurementStates = 2

\* C15: in every reachable state where lastMeasurementIndex and
\* lastTrackIndex are both valid, lastMeasurementIndex <= lastTrackIndex, and
\* both are indices of the arena; this holds through forward filtering, the
\* reverse transition and reversed filtering, which appends detached states.
C15_LastMeasurementNotAfterTip ==
    /\ (result.lastMeasurementIndex # SIZE_MAX
          /\ result.lastTrackIndex # SIZE_MAX)
       => result.lastMeasurementIndex <= result.lastTrackIndex
    /\ result.lastMeasurementIndex # SIZE_MAX
       => result.lastTrackIndex # SIZE_MAX
    /\ result.lastTrackIndex # SIZE_MAX
       => result.lastTrackIndex \in 0..(Len(result.fittedStates) - 1)

\* a hole follows the last measurement and the reversed filter has appended
\* a detached state
C15_Witness ==
    /\ result.reversed
    /\ result.lastMeasurementIndex # SIZE_MAX
    /\ result.lastMeasurementIndex < result.lastTrackIndex
    /\ Len(result.fittedStates) > result.lastTrackIndex + 1

\* the reorderings of a source-link range
Reorderings(n) ==
    {p \in [1..n -> 1..n] : \A i, j \in 1..n : p[i] = p[j] => i = j}
Permuted(links, p) == [i \in 1..Len(links) |-> links[p[i]]]

\* C16: for any permutation of the input source links the fit attaches the
\* same source link at each surface, also when two source links carry the
\* same geometry id: the measurement index built at fit entry, which alone
\* decides the link attached on a surface, is the one every permutation of
\* the range would have built.
C16_PermutationInvariant ==
    [][(pc = "start" /\ pc' = "propagate")
       => \A p \in Reorderings(Len(sourceLinks)) :
             inputMeasurements' = emplaceAll(<<>>, Permuted(sourceLinks, p))]_vars

\* the geometry ids of a source-link range, and the first link on one
GeometryIds(links) == {links[i].geo : i \in 1..Len(links)}
FirstLinkOn(links, g) ==
    links[CHOOSE i \in 1..Len(links) :
            /\ links[i].geo = g
            /\ \A j \in 1..Len(links) : links[j].geo = g => i <= j]

\* C17: the measurement index built at fit entry maps each geometry id of the
\* input to exactly one source link of the input on that id (the first in
\* the range), its size is the number of distinct geometry ids, and no step
\* after fit entry modifies it.
C17_MeasurementIndexFixed ==
    /\ [][(pc = "start" /\ pc' = "propagate")
          => /\ DOMAIN inputMeasurements' = GeometryIds(sourceLinks)
             /\ Cardinality(DOMAIN inputMeasurements')
                   = Cardinality(GeometryIds(sourceLinks))
             /\ \A g \in DOMAIN inputMeasurements' :
                   inputMeasurements'[g] = FirstLinkOn(sourceLinks, g)]_vars
    /\ [][pc # "start" => inputMeasurements' = inputMeasurements]_vars
    /\ [](pc = "start" => DOMAIN inputMeasurements = {})

\* the actor has filtered and reversed with an index of two entries
C17_Witness ==
    /\ pc = "returned"
    /\ Cardinality(DOMAIN inputMeasurements) = 2
    /\ result.reversed
    /\ Len(result.fittedStates) = 3
    /\ \A g \in DOMAIN inputMeasurements : inputMeasurements[g].geo = g

Populated(value) == value.kind # "unset"
\* the backward walk from the last measurement state
BackwardWalk ==
    LET chain == applyBackwards(result.fittedStates,
                                result.lastMeasurementIndex)
    IN  {chain[k] : k \in 1..Len(chain)}
PassedAgain ==
    {result.passedAgainSurfaces[k] : k \in 1..Len(result.passedAgainSurfaces)}

\* C18: after a reversed-filtering fit has reached the target surface
\* (finished and reversed), every state on the backward walk from
\* lastMeasurementIndex whose surface is not in passedAgainSurfaces has its
\* smoothed slot unset, and every state on the walk whose surface is in
\* passedAgainSurfaces still has its smoothed slot.
C18_MissedStatesUnsmoothed ==
    (result.finished /\ result.reversed) =>
        \A i \in BackwardWalk :
            Populated(getTrackState(result.fittedStates, i).smoothed)
                <=> surfaceOf(i) \in PassedAgain

\* a finished reversed fit with a state the reversed pass missed and one it
\* passed again
C18_Witness ==
    /\ result.finished /\ result.reversed
    /\ \E i \in BackwardWalk : surfaceOf(i) \notin PassedAgain
    /\ \E i \in BackwardWalk :
          /\ surfaceOf(i) \in PassedAgain
          /\ i # result.lastMeasurementIndex

\* the detached states appended by the reversed filter
DetachedIndices ==
    {j \in 0..(Len(result.fittedStates) - 1) : j > result.lastTrackIndex}

\* C19: during reversed filtering every surface in passedAgainSurfaces has a
\* state on the backward walk from lastMeasurementIndex on that surface whose
\* smoothed slot holds the filtered value the reversed pass produced on that
\* surface (that of a detached state), or, for the reversal-point surface
\* (the first entry), the forward filtered value of the last-measurement
\* state; so a surface is appended only when such a forward state exists.
C19_PassedAgainHaveSmoothed ==
    result.reversed =>
        /\ Len(result.passedAgainSurfaces) >= 1
        /\ result.passedAgainSurfaces[1]
              = surfaceOf(result.lastMeasurementIndex)
        /\ getTrackState(result.fittedStates,
                         result.lastMeasurementIndex).smoothed
              = getTrackState(result.fittedStates,
                              result.lastMeasurementIndex).filtered
        /\ \A k \in 2..Len(result.passedAgainSurfaces) :
              \E i \in BackwardWalk :
                 /\ surfaceOf(i) = result.passedAgainSurfaces[k]
                 /\ \E j \in DetachedIndices :
                       /\ surfaceOf(j) = result.passedAgainSurfaces[k]
                       /\ getTrackState(result.fittedStates, i).smoothed
                             = getTrackState(result.fittedStates, j).filtered

\* the reversed pass has passed a second surface again
C19_Witness ==
    /\ result.reversed
    /\ Len(result.passedAgainSurfaces) = 2
    /\ result.passedAgainSurfaces[2] # result.passedAgainSurfaces[1]
    /\ DetachedIndices # {}

\* the first state index finalize computes for the current chain
FirstStateIndex ==
    firstState(result.fittedStates,
               applyBackwards(result.fittedStates, result.lastMeasurementIndex),
               result.lastMeasurementIndex)

\* every state between firstStateIndex and lastMeasurementIndex holds a
\* value written by the smoother
C20_ChainSmoothed ==
    /\ result.lastMeasurementIndex # SIZE_MAX
    /\ \A i \in BackwardWalk :
          i >= FirstStateIndex
          => getTrackState(result.fittedStates, i).smoothed.kind = "smoothed"

\* C20: in every reachable state with smoothed = true the smoother extension
\* has been invoked and has succeeded, so every state between
\* firstStateIndex and lastMeasurementIndex has its smoothed slot written by
\* the smoother.
C20_SmoothedMeansSmootherSucceeded ==
    result.smoothed => C20_ChainSmoothed

\* the termination step of the last invocation chose the smoother, which
\* succeeded, with no target surface and at least one measurement recorded
C21_SmoothedWithoutTarget ==
    /\ locals.terminated
    /\ locals.finalizeRes = Ok
    /\ kalmanActor.targetSurface = NoSurface
    /\ ~reverseRequested(kalmanActor)
    /\ result.measurementStates >= 1

\* C21: with no target surface and the reverse path not chosen, the
\* invocation in which the termination predicate first holds with at least
\* one measurement recorded sets smoothed and finished, leaves
\* fittedParameters unset, and the fit returns success (the smoother
\* succeeding).
C21_TerminationFinishesWithSuccess ==
    C21_SmoothedWithoutTarget
    => /\ result.smoothed /\ result.finished
       /\ result.fittedParameters = "nullopt"
       /\ (Returned /\ PropagationSucceeded) => Success

MeasurementIndices ==
    {i \in ForwardIndices : "MeasurementFlag" \in flagsOf(i)}

\* a forward pass without error, outlier or material state and without target
\* surface, the smoother being the path chosen, in which every measurement
\* surface of the input was reported exactly once and every hole lies between
\* the first and the last measurement
C22_CleanForwardPass ==
    /\ pc # "start"
    /\ result.result = Ok
    /\ kalmanActor.targetSurface = NoSurface
    /\ ~reverseRequested(kalmanActor)
    /\ DOMAIN inputMeasurements # {}
    /\ \A i \in ForwardIndices :
          flagsOf(i) \cap {"OutlierFlag", "MaterialFlag"} = {}
    /\ {surfaceOf(i) : i \in MeasurementIndices} = DOMAIN inputMeasurements
    /\ Cardinality(MeasurementIndices) = Cardinality(DOMAIN inputMeasurements)
    /\ \A h \in HoleIndices :
          /\ \E i \in MeasurementIndices : i < h
          /\ \E i \in MeasurementIndices : h < i

\* C22: a forward pass with no outliers, no material surfaces and no target
\* surface, in which each of the N >= 1 measurement surfaces is reported once
\* and h sensitive surfaces without source link are reported between the
\* first and the last of them, ends with measurementStates = N,
\* measurementHoles = h, h missed surfaces, processedStates = N + h and
\* smoothed set.
C22_CountersOfCleanPass ==
    C22_CleanForwardPass
    => /\ result.measurementStates = Cardinality(DOMAIN inputMeasurements)
       /\ result.measurementHoles = Cardinality(HoleIndices)
       /\ Len(result.missedActiveSurfaces) = Cardinality(HoleIndices)
       /\ result.processedStates
             = Cardinality(DOMAIN inputMeasurements) + Cardinality(HoleIndices)
       /\ result.smoothed
       /\ Returned => Success

\* two measurements with one hole between them
C22_Witness ==
    /\ C22_CleanForwardPass
    /\ Cardinality(DOMAIN inputMeasurements) = 2
    /\ Cardinality(HoleIndices) = 1
    /\ Success

\* the installed actor carries every option of the caller
C23_ActorHasOptions ==
    /\ kalmanActor.targetSurface = kfOptions.referenceSurface
    /\ kalmanActor.multipleScattering = kfOptions.multipleScattering
    /\ kalmanActor.energyLoss = kfOptions.energyLoss
    /\ kalmanActor.reversedFiltering = kfOptions.reversedFiltering
    /\ kalmanActor.reversedFilteringCovarianceScaling
          = kfOptions.reversedFilteringCovarianceScaling
    /\ kalmanActor.freeToBoundCorrection = kfOptions.freeToBoundCorrection
    /\ kalmanActor.extensions = kfOptions.extensions

\* C23: both fit entry points configure the actor with every option of the
\* caller's KalmanFitterOptions: after either entry the installed actor's
\* targetSurface, multipleScattering, energyLoss, reversedFiltering,
\* reversedFilteringCovarianceScaling, freeToBoundCorrection and extensions
\* equal the option values.
C23_BothEntryPointsConfigureAll ==
    pc = "propagate" => C23_ActorHasOptions


\* C24: two fits running concurrently on one fitter, each with its own
\* options and source links, do not interfere: a step of the scheduled fit
\* leaves the fitter, its caller's options and everything the other fit owns
\* (its options, measurement index, propagator state and fit result) as they
\* were, and a context switch changes nothing but which fit is scheduled, so
\* each fit proceeds as it would alone
C24_FitsDoNotInterfere ==
    [][/\ fitter' = fitter
       /\ \/ /\ suspended' = suspended
             /\ kfOptions' = kfOptions
          \/ /\ suspended'.thread # suspended.thread
             /\ suspended' = FitContext(suspended'.thread)
             /\ FitContext(0)' = [suspended EXCEPT !.thread = 0]]_vars

C24_Witness ==
    /\ suspended # NoFit
    /\ suspended.thread = 2
    /\ pc = "propagate"
    /\ suspended.pc = "propagate"
    /\ Len(result.fittedStates) = 1
    /\ Len(suspended.result.fittedStates) = 1
    /\ ~result.finished
    /\ ~suspended.result.finished
    /\ result.measurementStates = 1
    /\ suspended.kfOptions # kfOptions


NonLengthMembers ==
    {"impactWeightFactor", "compatSeedWeight", "maxSeedsPerSpM",
     "compatSeedLimit", "curvatureSortingInFilter", "seedWeightIncrement",
     "numSeedIncrement", "seedConfirmation", "centralSeedConfirmationRange",
     "forwardSeedConfirmationRange", "maxSeedsPerSpMConf",
     "maxQualitySeedsPerSpMConf", "useDeltaRorTopRadius"}

\* C25: toInternalUnits is pure and idempotent: the call leaves the config
\* it is called on as it was, every member that is not a length (or inverse
\* length) has the same value in the returned config, and converting the
\* returned config again returns an equal config
C25_ToInternalUnitsPureIdempotent ==
    /\ [](call.returned # NotYet =>
            /\ \A member \in NonLengthMembers :
                  call.returned[1][member] = call.self[member]
            /\ toInternalUnits(call.returned[1]) = call.returned[1])
    /\ [][call.returned = NotYet => call'.self = call.self]_vars

C25_Witness ==
    /\ call # NoCall
    /\ call.function = "toInternalUnits"
    /\ call.applications = 2
    /\ call.returned # NotYet
    /\ call.returned[1].deltaRMin = Fraction(20, 1)
    /\ call.returned[1].minImpactSeedConf = Fraction(1, 2)
    /\ call.returned[1].seedConfirmation


\* the quantities the chi2 is defined from, for the returned call
Chi2Returned == call.function = "calculateChi2" /\ call.returned # NotYet

LeadingProjector ==
    topLeftCorner(call.projector, call.calibratedSize, eBoundSize)

Residual ==
    VectorMinus(head(call.fullCalibrated, call.calibratedSize),
                MatrixTimesVector(LeadingProjector, call.predicted))

InnovationCovariance ==
    MatrixPlus(topLeftCorner(call.fullCalibratedCovariance,
                             call.calibratedSize, call.calibratedSize),
               MatrixTimesMatrix(LeadingProjector,
                                 MatrixTimesMatrix(call.predictedCovariance,
                                                   transpose(LeadingProjector))))

SameLeading(A, B, rows) == \A i \in 1..rows : A[i] = B[i]

\* C26: calculateChi2 returns r^T S^-1 r with r = m - H_k x and
\* S = V + H_k C H_k^T built from the leading k components only: the value
\* is r . y for the y with S y = r, it is the same for every measurement,
\* measurement covariance and projector that agree on the leading k
\* components, block and rows, and for m = (1,0), x = 0, H = I2, V = I2,
\* C = 0 it is exactly 1
C26_Chi2OfLeadingComponents ==
    Chi2Returned =>
        LET k == call.calibratedSize
            y == MatrixTimesVector(inverse(InnovationCovariance), Residual)
        IN  /\ MatrixTimesVector(InnovationCovariance, y) = Residual
                  => call.returned[1] = Dot(Residual, y)
            /\ \A m \in Measurements :
                  head(m, k) = head(call.fullCalibrated, k)
                  => calculateChi2(m, call.fullCalibratedCovariance,
                                   call.predicted, call.predictedCovariance,
                                   call.projector, k) = call.returned[1]
            /\ \A V \in MeasurementCovariances :
                  topLeftCorner(V, k, k)
                     = topLeftCorner(call.fullCalibratedCovariance, k, k)
                  => calculateChi2(call.fullCalibrated, V, call.predicted,
                                   call.predictedCovariance, call.projector,
                                   k) = call.returned[1]
            /\ \A H \in Projectors :
                  SameLeading(H, call.projector, k)
                  => calculateChi2(call.fullCalibrated,
                                   call.fullCalibratedCovariance,
                                   call.predicted, call.predictedCovariance,
                                   H, k) = call.returned[1]
            /\ (/\ k = 2
                /\ head(call.fullCalibrated, 2) = <<One, Zero>>
                /\ \A j \in 1..eBoundSize : call.predicted[j] = Zero
                /\ topLeftCorner(call.projector, 2, 2)
                      = <<<<One, Zero>>, <<Zero, One>>>>
                /\ topLeftCorner(call.fullCalibratedCovariance, 2, 2)
                      = <<<<One, Zero>>, <<Zero, One>>>>
                /\ \A i, j \in 1..eBoundSize :
                      call.predictedCovariance[i][j] = Zero)
               => call.returned[1] = One

C26_Witness ==
    /\ call # NoCall
    /\ Chi2Returned
    /\ call.calibratedSize = 2
    /\ head(call.fullCalibrated, 2) = <<One, Zero>>
    /\ \A j \in 1..eBoundSize : call.predicted[j] = Zero
    /\ topLeftCorner(call.projector, 2, 2) = <<<<One, Zero>>, <<Zero, One>>>>
    /\ topLeftCorner(call.fullCalibratedCovariance, 2, 2)
          = <<<<One, Zero>>, <<Zero, One>>>>
    /\ \A i, j \in 1..eBoundSize : call.predictedCovariance[i][j] = Zero
    /\ call.returned[1] = One


MeasurementIsProjection ==
    head(call.fullCalibrated, call.calibratedSize)
       = MatrixTimesVector(LeadingProjector, call.predicted)

Invertible(S) ==
    LET det == determinant(S) IN IsFinite(det) /\ det.n # 0

AllFinite(A) == \A i \in 1..Len(A) : \A j \in 1..Len(A[i]) : IsFinite(A[i][j])

\* C27 as stated: calculateChi2 returns exactly 0 whenever the calibrated
\* measurement equals the projected prediction H_k x, for any C and V with
\* S = V + H_k C H_k^T invertible and any k
C27_ProjectionGivesZero ==
    (Chi2Returned /\ MeasurementIsProjection
        /\ Invertible(InnovationCovariance))
    => call.returned[1] = Zero

\* C27 amended: calculateChi2 returns exactly 0 whenever the calibrated
\* measurement is finite and equals the projected prediction H_k x and every
\* entry of the computed inverse of S = V + H_k C H_k^T is finite, for any k
C27_ProjectionGivesZeroIfInverseFinite ==
    (Chi2Returned /\ MeasurementIsProjection
        /\ \A i \in 1..call.calibratedSize : IsFinite(call.fullCalibrated[i])
        /\ AllFinite(inverse(InnovationCovariance)))
    => call.returned[1] = Zero

C27_Witness ==
    /\ call # NoCall
    /\ Chi2Returned
    /\ MeasurementIsProjection
    /\ call.calibratedSize = MeasurementSizeMax
    /\ call.predicted[1] = One
    /\ call.predictedCovariance[1][1] # Zero
    /\ AllFinite(inverse(InnovationCovariance))
    /\ call.returned[1] = Zero


FilterFailed ==
    \/ locals.filterRes \notin {"none", Ok}
    \/ locals.reversedFilterRes \notin {"none", Ok}

\* C28: when the forward or the reversed filter returns an error during an
\* actor invocation, the invocation ends with that error in result.result
\* and without having handled the termination, reversed the navigation,
\* called the smoother or bound the state to the target
C28_FilterErrorShortCircuits ==
    (locals.invoked /\ FilterFailed) =>
        /\ result.result \in {locals.filterRes, locals.reversedFilterRes}
        /\ ~locals.terminated
        /\ locals.reverseRes = "none"
        /\ locals.finalizeRes = "none"
        /\ ~locals.targetReached
        /\ locals.boundRes = "none"


\* C29: with a navigator that is not the direct one the measurement
\* surfaces are inserted into the navigator's external surfaces on the first
\* actor invocation only: an invocation that follows another invocation of
\* the same fit does not insert them
C29_InjectedOnFirstInvocationOnly ==
    [][(pc = "propagate" /\ pc' = "propagate" /\ locals.invoked)
          => ~locals'.injected]_vars


\* C30: finalize with a target surface resets the stepper to the smoothed
\* state of the endpoint with the smaller absolute path length to the
\* target, the first state on a tie; it flips the navigation direction
\* exactly when the signed path length of that endpoint is negative, and
\* leaves stepSize = navDir * |maxStepSize| and a zero accumulated path
C30_SteppingTowardsTarget ==
    (call.function = "targetStepping" /\ call.returned # NotYet) =>
        LET after == call.returned[1]
            lastIsCloser == Abs(call.lastPath) < Abs(call.firstPath)
            chosenPath == IF lastIsCloser THEN call.lastPath
                          ELSE call.firstPath
        IN  /\ after.resetTo = IF lastIsCloser THEN call.lastMeasurementIndex
                               ELSE call.firstStateIndex
            /\ (after.navDir # call.state.navDir) <=> (chosenPath < 0)
            /\ after.navDir \in {Forward, Backward}
            /\ after.stepSize = after.navDir * Abs(call.state.maxStepSize)
            /\ after.pathAccumulated = 0

C30_Witness ==
    /\ call # NoCall
    /\ call.function = "targetStepping"
    /\ call.returned # NotYet
    /\ call.firstPath = -1
    /\ call.lastPath = 1
    /\ call.firstStateIndex < call.lastMeasurementIndex
    /\ call.state.navDir = Forward
    /\ call.state.pathAccumulated > 0
    /\ call.returned[1].resetTo = call.firstStateIndex
    /\ call.returned[1].navDir = Backward
    /\ call.returned[1].pathAccumulated = 0

\* C31: an invocation whose reverse transition succeeded leaves the
\* navigation direction flipped once from the initial one, maxStepSize and
\* pathLimit with their magnitudes and the sign of the new direction,
\* reversed = true, and passedAgainSurfaces holding exactly the surface of
\* the last-measurement state, whose smoothed slot equals its filtered slot.
C31_ReverseTransition ==
    locals.reverseRes = Ok =>
        /\ state.navDir = -initialState.navDir
        /\ state.maxStepSize = state.navDir * Abs(initialState.maxStepSize)
        /\ state.pathLimit = state.navDir * Abs(initialState.pathLimit)
        /\ result.reversed
        /\ result.passedAgainSurfaces
              = <<surfaceOf(result.lastMeasurementIndex)>>
        /\ getTrackState(result.fittedStates,
                         result.lastMeasurementIndex).smoothed
              = getTrackState(result.fittedStates,
                              result.lastMeasurementIndex).filtered

\* the reverse transition has just succeeded after a forward pass of two
\* states
C31_Witness ==
    /\ locals.reverseRes = Ok
    /\ result.reversed
    /\ Len(result.fittedStates) >= 2
    /\ Len(result.passedAgainSurfaces) = 1

\* the indices of the states an actor invocation appends to the arena
CreatedIndices ==
    {j \in 0..(Len(result'.fittedStates) - 1) : j >= Len(result.fittedStates)}

\* C32: once the direction is reversed, every state a step creates has no
\* predecessor, is no state's predecessor and is not on the reversal start
\* surface; the existing states keep their predecessor, the backward walks
\* from lastMeasurementIndex and from lastTrackIndex visit the same states in
\* the same order, and the arena does not shrink.
C32_ReversedStatesDetached ==
    [][result.reversed =>
         /\ Len(result'.fittedStates) >= Len(result.fittedStates)
         /\ \A j \in CreatedIndices :
               /\ getTrackState(result'.fittedStates, j).previous = SIZE_MAX
               /\ surfaceOf(j)' # state.startSurface
               /\ \A i \in 0..(Len(result'.fittedStates) - 1) :
                     getTrackState(result'.fittedStates, i).previous # j
         /\ \A i \in 0..(Len(result.fittedStates) - 1) :
               getTrackState(result'.fittedStates, i).previous
                  = getTrackState(result.fittedStates, i).previous
         /\ applyBackwards(result'.fittedStates, result'.lastMeasurementIndex)
               = applyBackwards(result.fittedStates,
                                result.lastMeasurementIndex)
         /\ applyBackwards(result'.fittedStates, result'.lastTrackIndex)
               = applyBackwards(result.fittedStates, result.lastTrackIndex)
    ]_vars

\* the reversed filter has created a state beside a forward chain of two
C32_Witness ==
    /\ result.reversed
    /\ locals.updateRes = Ok
    /\ Len(applyBackwards(result.fittedStates, result.lastTrackIndex)) = 2
    /\ Len(result.fittedStates) = 3
    /\ getTrackState(result.fittedStates, 2).previous = SIZE_MAX

\* C33: a fit result returned as success has finished = true and exactly one
\* of smoothed and reversed.
C33_SuccessMeansFinished ==
    Success =>
        /\ ret.value[1].finished
        /\ ret.value[1].smoothed # ret.value[1].reversed

\* C34: smoothed and reversed are never both true, and each of smoothed,
\* reversed and finished stays true once it is true.
C34_FlagsExclusiveAndMonotone ==
    /\ [](~(result.smoothed /\ result.reversed))
    /\ [][/\ result.smoothed => result'.smoothed
          /\ result.reversed => result'.reversed
          /\ result.finished => result'.finished]_vars

\* a fit that smoothed in an earlier invocation has finished at the target
\* in a later one
C34_Witness ==
    /\ result.smoothed
    /\ result.finished
    /\ result.fittedParameters = "bound"
    /\ locals.finalizeRes = "none"

\* the quantities written by the forward pass
ForwardQuantities(r) ==
    <<r.measurementStates, r.measurementHoles, r.processedStates,
      r.lastTrackIndex, r.lastMeasurementIndex, r.missedActiveSurfaces>>

\* C35: once smoothed or reversed is true, no later step changes
\* measurementStates, measurementHoles, processedStates, lastTrackIndex,
\* lastMeasurementIndex or missedActiveSurfaces.
C35_ForwardQuantitiesFrozen ==
    [][(result.smoothed \/ result.reversed)
          => ForwardQuantities(result') = ForwardQuantities(result)]_vars

\* an invocation after the reversal has run the reversed filter and bound the
\* state at the target, and a hole of the forward pass is still recorded
C35_Witness ==
    /\ result.reversed
    /\ result.finished
    /\ ~locals.terminated
    /\ locals.reversedFilterRes = Ok
    /\ result.missedActiveSurfaces # <<>>
    /\ result.measurementHoles = 1

\* C36: the number of measurement states never exceeds the number of
\* geometry ids in the measurement index.
C36_MeasurementStatesBounded ==
    pc # "start"
        => result.measurementStates <= Cardinality(DOMAIN inputMeasurements)

\* the navigator has reported one measurement surface twice and both states
\* were accepted as measurements
C36_Witness ==
    /\ Cardinality(DOMAIN inputMeasurements) = 2
    /\ result.measurementStates = 2
    /\ Len(result.fittedStates) >= 2
    /\ surfaceOf(0) = surfaceOf(1)
    /\ flagsOf(0) = {"MeasurementFlag"}
    /\ flagsOf(1) = {"MeasurementFlag"}

\* C37: measurementHoles <= |missedActiveSurfaces| in every state, and the
\* truncation at termination keeps exactly the first measurementHoles
\* entries in their order and inserts no null surface.
C37_TruncationKeepsPrefix ==
    /\ [](result.measurementHoles <= Len(result.missedActiveSurfaces))
    /\ [][locals'.terminated =>
            /\ result'.missedActiveSurfaces
                  = SubSeq(result.missedActiveSurfaces, 1,
                           result'.measurementHoles)
            /\ \A k \in 1..Len(result'.missedActiveSurfaces) :
                  result'.missedActiveSurfaces[k] # NoSurface]_vars

\* the termination step has cut the two holes recorded after the last
\* measurement
C37_Witness ==
    /\ locals.terminated
    /\ result.measurementStates = 1
    /\ result.measurementHoles = 0
    /\ result.missedActiveSurfaces = <<>>
    /\ Cardinality(HoleIndices) = 2

\* C38: no step replaces an error stored in result.result by a success, and
\* a fit that ends with an error in result.result returns an error.
C38_ErrorIsSticky ==
    /\ [][result.result # Ok => result'.result # Ok]_vars
    /\ []((Returned /\ result.result # Ok) => ~ret.ok)

\* the actor was invoked with an updater error stored, its own filter step
\* succeeded, and the fit has returned
C38_Witness ==
    /\ Returned
    /\ result.result \in UpdaterErrors
    /\ locals.filterRes = Ok
    /\ ~ret.ok

\* the forward filter has returned an error
ForwardFilterFailed ==
    /\ call # NoCall
    /\ call.function = "filter"
    /\ call.returned # ReturnValue(Ok)

============================================================================
